---- MODULE Spec2Model ----
(***************************************************************************)
(* Nexx-Auth: the storage layer (server/storage.ts: DatabaseStorage and    *)
(* MemStorage) and the request flows built on it, as a state machine.      *)
(*                                                                         *)
(* Every repository call of DatabaseStorage is an `await db...`: the       *)
(* statement itself is atomic in the database, and other requests run      *)
(* between two statements of the same method.  A MemStorage method has no  *)
(* await before its last statement, so its body is one atomic step.        *)
(***************************************************************************)
EXTENDS Integers, FiniteSets, Sequences, TLC

\* ---- bounds -------------------------------------------------------------
NProc == 3          \* request slots (concurrently running handlers)
MaxSeats == 2       \* largest maxUsers of a license
MaxLicenses == 1    \* license keys ever created
MaxAppUsers == 3    \* app users ever created
MaxFaults == 1      \* repository faults injected in one behaviour
MaxBlacklist == 1   \* blacklist entries ever created
MaxSessions == 2    \* sessions ever opened
MaxBeats == 1       \* heartbeats a session receives
NAuth == 2          \* request slots of the login / register scenario
NHooks == 2         \* webhooks registered
MaxApps == 2        \* applications stored at once
MaxLogs == 2        \* activity log entries written
MaxCalls == 1       \* logAndNotify calls in one behaviour
MaxInvocations == 3 \* invocations of the serverless handler

Procs == 1..NProc
Apps == {1, 2}
Usernames == {"alice", "bob"}
Hwids == {"hw1", "hw2"}
Backends == {"db", "mem"}

\* null / undefined of an optional id
Null == 0

VARIABLES
    backend,       \* which IStorage implementation `storage` is
    licenseKeys,   \* id -> LicenseKey row
    appUsers,      \* id -> AppUser row
    nextId,        \* MemStorage.nextId / the serial of the tables
    pc,            \* per request slot: where its handler is suspended
    loc,           \* per request slot: arguments, locals and result
    faults,        \* repository faults injected so far
    applications,  \* id -> Application row
    blacklist,     \* id -> BlacklistEntry row
    activeSessions,\* id -> ActiveSession row
    nextBl,        \* next id of a blacklist entry
    nextSess,      \* next id (and token) of a session
    activityLogs,  \* id -> ActivityLog row
    nextLog,       \* next id of an activity log entry
    webhooks,      \* id -> Webhook row
    deliveries,    \* outbound webhook requests made, in order
    notify,        \* the running logAndNotify call
    initialized,   \* `let initialized` of the serverless entry point
    entry,         \* which entry point file the process runs
    invoked        \* calls made so far: handler, setupAuth, registerRoutes, and
                   \* initialisations completed and thrown (for the claims only)

\* MemStorage draws every id from one counter; ids are only compared within one
\* table, so the tables count separately here (as the database's serials do).
auditVars == <<activityLogs, nextLog, webhooks, deliveries, notify>>
authVars == <<applications, blacklist, activeSessions, nextBl, nextSess,
              activityLogs, nextLog, webhooks, deliveries, notify>>
serverlessVars == <<initialized, entry, invoked>>
vars == <<backend, licenseKeys, appUsers, nextId, pc, loc, faults,
          applications, blacklist, activeSessions, nextBl, nextSess,
          activityLogs, nextLog, webhooks, deliveries, notify,
          initialized, entry, invoked>>

\* ---- helpers ------------------------------------------------------------
Min(S) == CHOOSE x \in S : \A y \in S : x <= y

Remove(f, k) == [i \in (DOMAIN f) \ {k} |-> f[i]]

NoUser == [id |-> 0, applicationId |-> 0, username |-> "", email |-> "",
           password |-> [alg |-> "none", plain |-> ""], hwid |-> "",
           licenseKeyId |-> 0, isActive |-> FALSE, isPaused |-> FALSE,
           lastLogin |-> FALSE, expired |-> FALSE]

NoLoc == [op |-> "", app |-> 0, key |-> "", username |-> "", hwid |-> "",
          licId |-> 0, cur |-> 0, uid |-> 0, res |-> "",
          u0 |-> 0, c0 |-> 0,
          ip |-> "", pw |-> "", email |-> "", seen |-> NoUser,
          blk |-> FALSE, sid |-> 0, ids |-> {}, version |-> "",
          foreign |-> {}, rows |-> <<>>]

UsersOfLicense(l) == {u \in DOMAIN appUsers : appUsers[u].licenseKeyId = l}

\* the license a key string names (keys are generated, hence distinct)
LicenseOfKey(key) ==
    LET m == {i \in DOMAIN licenseKeys : licenseKeys[i].licenseKey = key}
    IN IF m = {} THEN Null ELSE Min(m)

\* ---- license keys -------------------------------------------------------
\* the key string of the next license (generated by the dashboard)
FreshKey == IF LicenseOfKey("K1") = Null THEN "K1"
            ELSE IF LicenseOfKey("K2") = Null THEN "K2" ELSE "K3"

NewLicenseKey(id, app, key, max) ==
    [id |-> id, applicationId |-> app, licenseKey |-> key, maxUsers |-> max,
     currentUsers |-> 0, isActive |-> TRUE, expired |-> FALSE]

CreateLicenseKey(app, key, max) ==
    /\ Cardinality(DOMAIN licenseKeys) < MaxLicenses
    /\ key = FreshKey
    /\ licenseKeys' = licenseKeys @@ (nextId :> NewLicenseKey(nextId, app, key, max))
    /\ nextId' = nextId + 1
    /\ UNCHANGED <<serverlessVars, backend, appUsers, pc, loc, faults, authVars>>

\* updates: Partial<InsertLicenseKey>; here the fields maxUsers and isActive
UpdateLicenseKey(id, setMax, max, setActive, active) ==
    /\ id \in DOMAIN licenseKeys
    /\ setMax \/ setActive
    /\ licenseKeys' = [licenseKeys EXCEPT
          ![id].maxUsers = IF setMax THEN max ELSE @,
          ![id].isActive = IF setActive THEN active ELSE @]
    /\ UNCHANGED <<serverlessVars, backend, appUsers, nextId, pc, loc, faults, authVars>>

\* time passes beyond the license's expiresAt
Expire(id) ==
    /\ id \in DOMAIN licenseKeys
    /\ ~licenseKeys[id].expired
    /\ licenseKeys' = [licenseKeys EXCEPT ![id].expired = TRUE]
    /\ UNCHANGED <<serverlessVars, backend, appUsers, nextId, pc, loc, faults, authVars>>

DbValidateLicenseKey(key, app) ==
    LET m == {i \in DOMAIN licenseKeys :
                 /\ licenseKeys[i].licenseKey = key
                 /\ licenseKeys[i].applicationId = app
                 /\ licenseKeys[i].isActive}
    IN IF m = {} THEN Null
       ELSE IF licenseKeys[Min(m)].expired THEN Null
       ELSE IF licenseKeys[Min(m)].currentUsers >= licenseKeys[Min(m)].maxUsers THEN Null
       ELSE Min(m)

\* MemStorage.validateLicenseKey: getLicenseKeyByKey, then application,
\* isActive and expiry
MemValidateLicenseKey(key, app) ==
    LET k == LicenseOfKey(key)
    IN IF k = Null \/ licenseKeys[k].applicationId # app \/ ~licenseKeys[k].isActive
       THEN Null
       ELSE IF licenseKeys[k].expired THEN Null
       ELSE k

ValidateLicenseKey(key, app) ==
    IF backend = "mem" THEN MemValidateLicenseKey(key, app)
    ELSE DbValidateLicenseKey(key, app)

\* a caller asks whether a key is usable; licId is the license returned
ValidateLicenseKeyCall(p, key, app) ==
    /\ pc[p] = "idle"
    /\ pc' = [pc EXCEPT ![p] = "done"]
    /\ loc' = [loc EXCEPT ![p] = [NoLoc EXCEPT !.op = "validateLicenseKey",
                  !.key = key, !.app = app,
                  !.licId = ValidateLicenseKey(key, app)]]
    /\ UNCHANGED <<serverlessVars, backend, licenseKeys, appUsers, nextId, faults, authVars>>

\* ---- incrementLicenseUsage / decrementLicenseUsage ----------------------
\* MemStorage: get, `if (!key) return false`, key.currentUsers++, return true
MemIncrement(id) ==
    IF id \in DOMAIN licenseKeys
    THEN [licenseKeys EXCEPT ![id].currentUsers = @ + 1]
    ELSE licenseKeys

MemDecrement(id) ==
    IF id \in DOMAIN licenseKeys /\ licenseKeys[id].currentUsers > 0
    THEN [licenseKeys EXCEPT ![id].currentUsers = @ - 1]
    ELSE licenseKeys

\* DatabaseStorage: the UPDATE ... SET currentUsers = <value computed from the
\* earlier SELECT> WHERE id = <id>
DbSetCurrentUsers(id, value) ==
    IF id \in DOMAIN licenseKeys
    THEN [licenseKeys EXCEPT ![id].currentUsers = value]
    ELSE licenseKeys

Bool(b) == IF b THEN "true" ELSE "false"

StartIncrement(p, id) ==
    /\ pc[p] = "idle"
    /\ id \in DOMAIN licenseKeys => licenseKeys[id].currentUsers <= MaxSeats
    /\ IF backend = "mem"
       THEN /\ licenseKeys' = MemIncrement(id)
            /\ pc' = [pc EXCEPT ![p] = "done"]
            /\ loc' = [loc EXCEPT ![p] = [NoLoc EXCEPT !.op = "increment",
                          !.licId = id, !.res = Bool(id \in DOMAIN licenseKeys)]]
       ELSE \* the SELECT
            /\ UNCHANGED licenseKeys
            /\ IF id \in DOMAIN licenseKeys
               THEN /\ pc' = [pc EXCEPT ![p] = "inc_write"]
                    /\ loc' = [loc EXCEPT ![p] = [NoLoc EXCEPT !.op = "increment",
                          !.licId = id, !.cur = licenseKeys[id].currentUsers]]
               ELSE /\ pc' = [pc EXCEPT ![p] = "done"]
                    /\ loc' = [loc EXCEPT ![p] = [NoLoc EXCEPT !.op = "increment",
                          !.licId = id, !.res = "false"]]
    /\ UNCHANGED <<serverlessVars, backend, appUsers, nextId, faults, authVars>>

IncWrite(p) ==
    /\ pc[p] = "inc_write"
    /\ licenseKeys' = DbSetCurrentUsers(loc[p].licId, loc[p].cur + 1)
    /\ pc' = [pc EXCEPT ![p] = "done"]
    /\ loc' = [loc EXCEPT ![p].res = Bool(loc[p].licId \in DOMAIN licenseKeys)]
    /\ UNCHANGED <<serverlessVars, backend, appUsers, nextId, faults, authVars>>

StartDecrement(p, id) ==
    /\ pc[p] = "idle"
    /\ IF backend = "mem"
       THEN /\ licenseKeys' = MemDecrement(id)
            /\ pc' = [pc EXCEPT ![p] = "done"]
            /\ loc' = [loc EXCEPT ![p] = [NoLoc EXCEPT !.op = "decrement",
                          !.licId = id, !.res = Bool(id \in DOMAIN licenseKeys)]]
       ELSE /\ UNCHANGED licenseKeys
            /\ IF id \in DOMAIN licenseKeys
               THEN /\ pc' = [pc EXCEPT ![p] = "dec_write"]
                    /\ loc' = [loc EXCEPT ![p] = [NoLoc EXCEPT !.op = "decrement",
                          !.licId = id, !.cur = licenseKeys[id].currentUsers]]
               ELSE /\ pc' = [pc EXCEPT ![p] = "done"]
                    /\ loc' = [loc EXCEPT ![p] = [NoLoc EXCEPT !.op = "decrement",
                          !.licId = id, !.res = "false"]]
    /\ UNCHANGED <<serverlessVars, backend, appUsers, nextId, faults, authVars>>

DecWrite(p) ==
    /\ pc[p] = "dec_write"
    /\ licenseKeys' = DbSetCurrentUsers(loc[p].licId,
                         IF loc[p].cur - 1 > 0 THEN loc[p].cur - 1 ELSE 0)
    /\ pc' = [pc EXCEPT ![p] = "done"]
    /\ loc' = [loc EXCEPT ![p].res = Bool(loc[p].licId \in DOMAIN licenseKeys)]
    /\ UNCHANGED <<serverlessVars, backend, appUsers, nextId, faults, authVars>>

\* ---- app users ----------------------------------------------------------
\* bcrypt.hash(p, 12) / a password stored as given
Hash(p) == [alg |-> "bcrypt", plain |-> p]
Plain(p) == [alg |-> "none", plain |-> p]

\* bcrypt.compare(plain, stored)
ValidatePassword(plain, stored) == stored.alg = "bcrypt" /\ stored.plain = plain

MaxId == MaxLicenses + MaxAppUsers

NewAppUser(id, app, username, email, password, hwid, lic) ==
    [id |-> id, applicationId |-> app, username |-> username, email |-> email,
     password |-> password, hwid |-> hwid, licenseKeyId |-> lic,
     isActive |-> TRUE, isPaused |-> FALSE, lastLogin |-> FALSE,
     expired |-> FALSE]

\* DatabaseStorage.createAppUser / MemStorage.createAppUser: no license
DbCreateAppUser(app, username, email, password, hwid) ==
    appUsers @@ (nextId :> NewAppUser(nextId, app, username, email,
                                      Hash(password), hwid, Null))

MemCreateAppUser(app, username, email, password, hwid) ==
    appUsers @@ (nextId :> NewAppUser(nextId, app, username, email,
                                      Plain(password), hwid, Null))

CreateAppUser(app, username) ==
    /\ nextId <= MaxId
    /\ appUsers' = IF backend = "mem"
                   THEN MemCreateAppUser(app, username, "", "pw", "")
                   ELSE DbCreateAppUser(app, username, "", "pw", "")
    /\ nextId' = nextId + 1
    /\ UNCHANGED <<serverlessVars, backend, licenseKeys, pc, loc, faults, authVars>>

\* createAppUser with the password the caller gives
CreateAppUserCall(app, username, password) ==
    /\ nextId <= MaxId
    /\ appUsers' = IF backend = "mem"
                   THEN MemCreateAppUser(app, username, "", password, "")
                   ELSE DbCreateAppUser(app, username, "", password, "")
    /\ nextId' = nextId + 1
    /\ UNCHANGED <<serverlessVars, backend, licenseKeys, pc, loc, faults, authVars>>

\* updateAppUser(id, { password }): DatabaseStorage and the second MemStorage
\* hash the new password, MemStorage spreads the update as it comes
UpdateAppUserPassword(id, password) ==
    /\ id \in DOMAIN appUsers
    /\ password # ""
    /\ appUsers' = [appUsers EXCEPT ![id].password =
                       IF backend = "mem" THEN Plain(password) ELSE Hash(password)]
    /\ UNCHANGED <<serverlessVars, backend, licenseKeys, nextId, pc, loc, faults, authVars>>

\* a deleteAppUser that would also delete the log entries of the user
DeleteAppUserCascade(id) ==
    /\ id \in DOMAIN appUsers
    /\ appUsers' = Remove(appUsers, id)
    /\ activityLogs' = [i \in {j \in DOMAIN activityLogs :
                                  activityLogs[j].appUserId # id}
                          |-> activityLogs[i]]
    /\ UNCHANGED <<serverlessVars, backend, licenseKeys, nextId, pc, loc, faults, applications,
                   blacklist, activeSessions, nextBl, nextSess, nextLog,
                   webhooks, deliveries, notify>>

\* deleteAppUser: the row of the user, nothing else
DeleteAppUser(id) ==
    /\ id \in DOMAIN appUsers
    /\ appUsers' = Remove(appUsers, id)
    /\ UNCHANGED <<serverlessVars, backend, licenseKeys, nextId, pc, loc, faults, authVars>>

\* updateAppUser: { ...user, ...updates }; here the fields username and isPaused
UpdateAppUser(id, setName, username, setPaused, paused) ==
    /\ id \in DOMAIN appUsers
    /\ setName \/ setPaused
    /\ appUsers' = [appUsers EXCEPT
          ![id].username = IF setName THEN username ELSE @,
          ![id].isPaused = IF setPaused THEN paused ELSE @]
    /\ UNCHANGED <<serverlessVars, backend, licenseKeys, nextId, pc, loc, faults, authVars>>

\* ---- createAppUserWithLicense -------------------------------------------
\* the caller's view of the state when the call starts (for the claims only)
Snapshot(key) ==
    [u0 |-> Cardinality(DOMAIN appUsers),
     c0 |-> IF LicenseOfKey(key) = Null THEN 0
            ELSE licenseKeys[LicenseOfKey(key)].currentUsers]

RegLoc(base, app, username, key) ==
    [base EXCEPT !.app = app, !.username = username,
                 !.key = key, !.u0 = Snapshot(key).u0, !.c0 = Snapshot(key).c0]

\* the call and what runs before its first suspension; base: the caller's locals
EnterCreateAppUserWithLicense(p, base, app, username, key) ==
    /\ IF backend = "mem"
       THEN \* return this.createAppUser(applicationId, user)
            /\ nextId <= MaxId
            /\ appUsers' = MemCreateAppUser(app, username, base.email, "pw", base.hwid)
            /\ nextId' = nextId + 1
            /\ pc' = [pc EXCEPT ![p] = "done"]
            /\ loc' = [loc EXCEPT ![p] = [RegLoc(base, app, username, key) EXCEPT
                                             !.uid = nextId, !.res = "ok"]]
       ELSE \* await this.validateLicenseKey(...)
            /\ UNCHANGED <<appUsers, nextId>>
            /\ IF DbValidateLicenseKey(key, app) = Null
               THEN /\ pc' = [pc EXCEPT ![p] = "done"]
                    /\ loc' = [loc EXCEPT ![p] = [RegLoc(base, app, username, key) EXCEPT
                                                     !.res = "Invalid"]]
               ELSE /\ pc' = [pc EXCEPT ![p] = "reg_insert"]
                    /\ loc' = [loc EXCEPT ![p] = [RegLoc(base, app, username, key) EXCEPT
                                     !.licId = DbValidateLicenseKey(key, app)]]
    /\ UNCHANGED <<serverlessVars, backend, licenseKeys, faults, authVars>>

StartCreateAppUserWithLicense(p, app, username, key) ==
    /\ pc[p] = "idle"
    /\ EnterCreateAppUserWithLicense(p, [NoLoc EXCEPT !.op = "register"],
                                     app, username, key)

\* await db.insert(appUsers).values({... licenseKeyId: licenseKey.id ...})
RegInsert(p) ==
    /\ pc[p] = "reg_insert"
    /\ nextId <= MaxId
    /\ appUsers' = appUsers @@ (nextId :> NewAppUser(nextId, loc[p].app,
                        loc[p].username, loc[p].email, Hash("pw"), loc[p].hwid,
                        loc[p].licId))
    /\ nextId' = nextId + 1
    /\ pc' = [pc EXCEPT ![p] = "reg_incRead"]
    /\ loc' = [loc EXCEPT ![p].uid = nextId]
    /\ UNCHANGED <<serverlessVars, backend, licenseKeys, faults, authVars>>

\* await this.incrementLicenseUsage(licenseKey.id): the SELECT; the boolean
\* it returns is dropped by createAppUserWithLicense
RegIncRead(p) ==
    /\ pc[p] = "reg_incRead"
    /\ IF loc[p].licId \in DOMAIN licenseKeys
       THEN /\ pc' = [pc EXCEPT ![p] = "reg_incWrite"]
            /\ loc' = [loc EXCEPT ![p].cur = licenseKeys[loc[p].licId].currentUsers]
       ELSE /\ pc' = [pc EXCEPT ![p] = "done"]
            /\ loc' = [loc EXCEPT ![p].res = "ok"]
    /\ UNCHANGED <<serverlessVars, backend, licenseKeys, appUsers, nextId, faults, authVars>>

\* ... the UPDATE, then `return user`
RegIncWrite(p) ==
    /\ pc[p] = "reg_incWrite"
    /\ licenseKeys' = DbSetCurrentUsers(loc[p].licId, loc[p].cur + 1)
    /\ pc' = [pc EXCEPT ![p] = "done"]
    /\ loc' = [loc EXCEPT ![p].res = "ok"]
    /\ UNCHANGED <<serverlessVars, backend, appUsers, nextId, faults, authVars>>

\* a pending `await db...` of the request rejects: the method throws
Fault(p) ==
    /\ pc[p] \in {"reg_insert", "reg_incRead", "reg_incWrite"}
    /\ faults < MaxFaults
    /\ faults' = faults + 1
    /\ pc' = [pc EXCEPT ![p] = "done"]
    /\ loc' = [loc EXCEPT ![p].res = "fault"]
    /\ UNCHANGED <<serverlessVars, backend, licenseKeys, appUsers, nextId, authVars>>

\* the handler has answered; the slot serves the next request
Return(p) ==
    /\ pc[p] = "done"
    /\ pc' = [pc EXCEPT ![p] = "idle"]
    /\ loc' = [loc EXCEPT ![p] = NoLoc]
    /\ UNCHANGED <<serverlessVars, backend, licenseKeys, appUsers, nextId, faults, authVars>>

\* ---- applications --------------------------------------------------------
\* two applications of one tenant; application 1 locks accounts to a device
TwoApps == [a \in Apps |-> [id |-> a, userId |-> "owner", isActive |-> TRUE,
                            requireHwid |-> (a = 1),
                            requireVersion |-> FALSE, allowedVersion |-> "1.0",
                            apiKey |-> IF a = 1 THEN "nexx_a" ELSE "nexx_b",
                            apiKey0 |-> IF a = 1 THEN "nexx_a" ELSE "nexx_b"]]

\* what `nexx_${Math.random().toString(36).substring(2, 34)}` can evaluate to
ApiKeys == {"nexx_a", "nexx_b"}

\* createApplication: the key is the generator's output, stored as it comes;
\* apiKey0 remembers the key assigned at creation
CreateApplication(userId, apiKey, hwidLockEnabled) ==
    /\ Cardinality(DOMAIN applications) < MaxApps
    /\ nextId <= MaxId
    /\ applications' = applications @@ (nextId :>
           [id |-> nextId, userId |-> userId, isActive |-> TRUE,
            requireHwid |-> hwidLockEnabled,
            requireVersion |-> FALSE, allowedVersion |-> "1.0",
            apiKey |-> apiKey, apiKey0 |-> apiKey])
    /\ nextId' = nextId + 1
    /\ UNCHANGED <<serverlessVars, backend, licenseKeys, appUsers, pc, loc, faults,
                   blacklist, activeSessions, nextBl, nextSess, auditVars>>

\* updateApplication: { ...app, ...updates }; UpdateApplication carries name,
\* description, isActive, settings and messages; here isActive and requireHwid
UpdateApplication(id, setActive, active, setHwid, hwid) ==
    /\ id \in DOMAIN applications
    /\ setActive \/ setHwid
    /\ applications' = [applications EXCEPT
          ![id].isActive = IF setActive THEN active ELSE @,
          ![id].requireHwid = IF setHwid THEN hwid ELSE @]
    /\ UNCHANGED <<serverlessVars, backend, licenseKeys, appUsers, nextId, pc, loc, faults,
                   blacklist, activeSessions, nextBl, nextSess, auditVars>>

\* deleteApplication
DeleteApplication(id) ==
    /\ id \in DOMAIN applications
    /\ applications' = Remove(applications, id)
    /\ UNCHANGED <<serverlessVars, backend, licenseKeys, appUsers, nextId, pc, loc, faults,
                   blacklist, activeSessions, nextBl, nextSess, auditVars>>

\* no logAndNotify call running
NoNotify == [pc |-> "idle"]

\* the entry point modules: api/v1/[...api].ts, api/auth/[...auth].ts and the
\* combined one of part_002
Entries == {"v1", "auth", "part_002"}

NoCalls == [handler |-> 0, setupAuth |-> 0, registerRoutes |-> 0,
            completed |-> 0, thrown |-> 0]

\* a fresh process: the module has been loaded, nothing has been invoked
ColdStart(e) ==
    /\ initialized = FALSE
    /\ entry = e
    /\ invoked = NoCalls

\* nothing logged, no webhook registered, nothing sent
InitAudit ==
    /\ activityLogs = <<>>
    /\ nextLog = 1
    /\ webhooks = <<>>
    /\ deliveries = <<>>
    /\ notify = NoNotify
    /\ ColdStart("v1")

InitAuth ==
    /\ applications = TwoApps
    /\ blacklist = <<>>
    /\ activeSessions = <<>>
    /\ nextBl = 1
    /\ nextSess = 1
    /\ InitAudit

\* ---- blacklist ----------------------------------------------------------
\* createBlacklistEntry: the dashboard blocks a value (applicationId given) 
CreateBlacklistEntry(app, type, value) ==
    /\ nextBl <= MaxBlacklist
    /\ blacklist' = blacklist @@ (nextBl :>
           [id |-> nextBl, applicationId |-> app, type |-> type,
            value |-> value, isActive |-> TRUE])
    /\ nextBl' = nextBl + 1
    /\ UNCHANGED <<serverlessVars, backend, licenseKeys, appUsers, nextId, pc, loc, faults,
                   applications, activeSessions, nextSess, auditVars>>

\* deleteBlacklistEntry
DeleteBlacklistEntry(id) ==
    /\ id \in DOMAIN blacklist
    /\ blacklist' = Remove(blacklist, id)
    /\ UNCHANGED <<serverlessVars, backend, licenseKeys, appUsers, nextId, pc, loc, faults,
                   applications, activeSessions, nextBl, nextSess, auditVars>>

\* checkBlacklist with the applicationId test lost: an entry of any application,
\* or of none, matches
CheckBlacklistAnyApplication(applicationId, type, value) ==
    \E id \in DOMAIN blacklist :
        /\ blacklist[id].type = type
        /\ blacklist[id].value = value

\* checkBlacklist with the type test lost: only ip entries are honoured
MemCheckBlacklistIpOnly(applicationId, type, value) ==
    \E id \in DOMAIN blacklist :
        /\ blacklist[id].applicationId = applicationId
        /\ blacklist[id].type = "ip"
        /\ type = "ip"
        /\ blacklist[id].value = value

\* MemStorage.checkBlacklist: first entry of the application with this type and value
MemCheckBlacklist(applicationId, type, value) ==
    \E id \in DOMAIN blacklist :
        /\ blacklist[id].applicationId = applicationId
        /\ blacklist[id].type = type
        /\ blacklist[id].value = value

\* DatabaseStorage.checkBlacklist: the same, and the entry is active
DbCheckBlacklist(applicationId, type, value) ==
    \E id \in DOMAIN blacklist :
        /\ blacklist[id].applicationId = applicationId
        /\ blacklist[id].type = type
        /\ blacklist[id].value = value
        /\ blacklist[id].isActive

CheckBlacklist(applicationId, type, value) ==
    IF backend = "mem" THEN MemCheckBlacklist(applicationId, type, value)
                       ELSE DbCheckBlacklist(applicationId, type, value)

\* the application ids (Null: none) carried by the entries that match an
\* attempt's values but belong to another application
Foreign(applicationId, ip, username, email, hwid) ==
    {blacklist[id].applicationId : id \in
        {i \in DOMAIN blacklist :
            /\ blacklist[i].applicationId # applicationId
            /\ blacklist[i].isActive
            /\ <<blacklist[i].type, blacklist[i].value>> \in
                  {<<"ip", ip>>, <<"username", username>>,
                   <<"email", email>>, <<"hwid", hwid>>}}}

\* policy step 1: the attempt's ip, username, email and hwid, each under its type
IsBlacklisted(applicationId, ip, username, email, hwid) ==
    \/ CheckBlacklist(applicationId, "ip", ip)
    \/ CheckBlacklist(applicationId, "username", username)
    \/ CheckBlacklist(applicationId, "email", email)
    \/ CheckBlacklist(applicationId, "hwid", hwid)

\* ---- hardware id, sessions ----------------------------------------------
\* getAppUserByUsername with the applicationId test lost
GetAppUserByUsernameAnyApp(applicationId, username) ==
    LET hits == {u \in DOMAIN appUsers : appUsers[u].username = username}
    IN IF hits = {} THEN Null ELSE Min(hits)

\* getAppUserByUsername: the application's user of that name, or Null
GetAppUserByUsername(applicationId, username) ==
    LET hits == {u \in DOMAIN appUsers :
                    /\ appUsers[u].applicationId = applicationId
                    /\ appUsers[u].username = username}
    IN IF hits = {} THEN Null ELSE Min(hits)

\* getAppUserByEmail: the application's user with that email, or Null
GetAppUserByEmail(applicationId, email) ==
    LET hits == {u \in DOMAIN appUsers :
                    /\ appUsers[u].applicationId = applicationId
                    /\ appUsers[u].email = email}
    IN IF email = "" \/ hits = {} THEN Null ELSE Min(hits)

\* getAllAppUsers: the application's users
GetAllAppUsers(applicationId) ==
    {u \in DOMAIN appUsers : appUsers[u].applicationId = applicationId}

\* a caller runs one of the three lookups scoped to an application; ids: the
\* rows returned, each as <<id, applicationId, username>>
LookupCall(p, kind, applicationId, arg) ==
    /\ pc[p] = "idle"
    /\ pc' = [pc EXCEPT ![p] = "done"]
    /\ LET found == CASE kind = "getAppUserByUsername" ->
                             {GetAppUserByUsername(applicationId, arg)} \ {Null}
                      [] kind = "getAppUserByEmail" ->
                             {GetAppUserByEmail(applicationId, arg)} \ {Null}
                      [] OTHER -> GetAllAppUsers(applicationId)
       IN loc' = [loc EXCEPT ![p] = [NoLoc EXCEPT
             !.op = kind, !.app = applicationId,
             !.ids = {<<i, appUsers[i].applicationId, appUsers[i].username>> :
                         i \in found}]]
    /\ UNCHANGED <<serverlessVars, backend, licenseKeys, appUsers, nextId, faults, authVars>>

\* setAppUserHwid: writes the hwid, whatever is stored
SetAppUserHwid(id, hwid) ==
    IF id \in DOMAIN appUsers
    THEN [appUsers EXCEPT ![id].hwid = hwid]
    ELSE appUsers

\* resetAppUserHwid: the dashboard clears the binding
ResetAppUserHwid(id) ==
    /\ id \in DOMAIN appUsers
    /\ appUsers[id].hwid # ""
    /\ appUsers' = [appUsers EXCEPT ![id].hwid = ""]
    /\ UNCHANGED <<serverlessVars, backend, licenseKeys, nextId, pc, loc, faults, authVars>>

\* createActiveSession: a new active session row under a token of its own
CreateActiveSession(applicationId, appUserId) ==
    activeSessions @@ (nextSess :>
        [id |-> nextSess, applicationId |-> applicationId,
         appUserId |-> appUserId, sessionToken |-> nextSess, isActive |-> TRUE,
         lastActivity |-> 0])

\* createActiveSession as the storage exposes it: the caller supplies the token
\* and the row is stored under a fresh id, whatever tokens are already stored
CreateActiveSessionCall(applicationId, appUserId, sessionToken) ==
    /\ nextSess <= MaxSessions
    /\ activeSessions' =
           (IF backend = "part_001"
            THEN \* Map.set(session.sessionToken, ...) replaces the entry of the token
                 [i \in {j \in DOMAIN activeSessions :
                            activeSessions[j].sessionToken # sessionToken}
                    |-> activeSessions[i]]
            ELSE activeSessions)
           @@ (nextSess :>
           [id |-> nextSess, applicationId |-> applicationId,
            appUserId |-> appUserId, sessionToken |-> sessionToken,
            isActive |-> TRUE, lastActivity |-> 0])
    /\ nextSess' = nextSess + 1
    /\ UNCHANGED <<serverlessVars, backend, licenseKeys, appUsers, nextId, pc, loc, faults,
                   applications, blacklist, nextBl, auditVars>>

\* endSession: MemStorage ends the first session found with the token,
\* DatabaseStorage every row with it
EndSession(sessionToken) ==
    LET hits == {i \in DOMAIN activeSessions :
                    activeSessions[i].sessionToken = sessionToken}
        ended == IF backend = "mem" THEN {Min(hits)} ELSE hits
    IN /\ hits # {}
       /\ \E i \in ended : activeSessions[i].isActive
       /\ activeSessions' = [i \in DOMAIN activeSessions |->
              IF i \in ended THEN [activeSessions[i] EXCEPT !.isActive = FALSE]
              ELSE activeSessions[i]]
       /\ UNCHANGED <<serverlessVars, backend, licenseKeys, appUsers, nextId, pc, loc, faults,
                      applications, blacklist, nextBl, nextSess, auditVars>>

\* the sessions a token names, and the ones a call acts on: MemStorage takes
\* the first found, DatabaseStorage every row, the second MemStorage the entry
\* of the token
Hits(sessionToken) ==
    {i \in DOMAIN activeSessions : activeSessions[i].sessionToken = sessionToken}

Touched(sessionToken) ==
    IF Hits(sessionToken) = {} THEN {}
    ELSE IF backend = "mem" THEN {Min(Hits(sessionToken))}
    ELSE Hits(sessionToken)

\* a heartbeat that would also switch the session on again
UpdateSessionActivityReviving(sessionToken) ==
    [i \in DOMAIN activeSessions |->
        IF i \in Touched(sessionToken)
        THEN [activeSessions[i] EXCEPT !.lastActivity = @ + 1, !.isActive = TRUE]
        ELSE activeSessions[i]]

\* a heartbeat that would stamp every session
UpdateSessionActivityAll(sessionToken) ==
    [i \in DOMAIN activeSessions |->
        [activeSessions[i] EXCEPT !.lastActivity = @ + 1]]

\* updateSessionActivity (updateActiveSession(token, {}) in the second
\* MemStorage): lastActivity = new Date(), a later time than the one stored
UpdateSessionActivity(sessionToken) ==
    [i \in DOMAIN activeSessions |->
        IF i \in Touched(sessionToken)
        THEN [activeSessions[i] EXCEPT !.lastActivity = @ + 1]
        ELSE activeSessions[i]]

UpdateSessionActivityCall(p, sessionToken) ==
    /\ pc[p] = "idle"
    /\ \A i \in DOMAIN activeSessions : activeSessions[i].lastActivity < MaxBeats
    /\ activeSessions' = UpdateSessionActivity(sessionToken)
    /\ pc' = [pc EXCEPT ![p] = "done"]
    /\ loc' = [loc EXCEPT ![p] = [NoLoc EXCEPT !.op = "updateSessionActivity",
                  !.key = sessionToken, !.res = Bool(Hits(sessionToken) # {})]]
    /\ UNCHANGED <<serverlessVars, backend, licenseKeys, appUsers, nextId, faults,
                   applications, blacklist, nextBl, nextSess, auditVars>>

\* endSession sets isActive = false; deleteActiveSession of the second
\* MemStorage deletes the entry
EndSessionRows(sessionToken) ==
    IF backend = "part_001"
    THEN [i \in DOMAIN activeSessions \ Hits(sessionToken) |-> activeSessions[i]]
    ELSE [i \in DOMAIN activeSessions |->
             IF i \in Touched(sessionToken)
             THEN [activeSessions[i] EXCEPT !.isActive = FALSE]
             ELSE activeSessions[i]]

EndSessionCall(p, sessionToken) ==
    /\ pc[p] = "idle"
    /\ activeSessions' = EndSessionRows(sessionToken)
    /\ pc' = [pc EXCEPT ![p] = "done"]
    /\ loc' = [loc EXCEPT ![p] = [NoLoc EXCEPT !.op = "endSession",
                  !.key = sessionToken, !.res = Bool(Hits(sessionToken) # {})]]
    /\ UNCHANGED <<serverlessVars, backend, licenseKeys, appUsers, nextId, faults,
                   applications, blacklist, nextBl, nextSess, auditVars>>

\* getActiveSessions; getAllActiveSessions of the second MemStorage has no
\* isActive test
GetActiveSessions(applicationId) ==
    {i \in DOMAIN activeSessions :
        /\ activeSessions[i].applicationId = applicationId
        /\ backend = "part_001" \/ activeSessions[i].isActive}

\* ---- validateLogin (the second MemStorage) -------------------------------
\* validateLogin without `if (!isValid) return null`
ValidateLoginNoPasswordTest(users, applicationId, username, password) ==
    LET hits == {u \in DOMAIN users :
                    /\ users[u].applicationId = applicationId
                    /\ users[u].username = username}
    IN IF hits = {} THEN Null ELSE Min(hits)

\* the user returned by validateLogin over the rows `users`, or Null:
\* getAppUserByUsername, `if (!user) return null`, bcrypt.compare,
\* `if (!isValid) return null`, return user
ValidateLogin(users, applicationId, username, password) ==
    LET hits == {u \in DOMAIN users :
                    /\ users[u].applicationId = applicationId
                    /\ users[u].username = username}
    IN IF hits = {} THEN Null
       ELSE IF ~ValidatePassword(password, users[Min(hits)].password) THEN Null
       ELSE Min(hits)

\* a caller runs validateLogin; on success the user's lastLogin is set
ValidateLoginCall(p, applicationId, username, password) ==
    /\ pc[p] = "idle"
    /\ LET user == ValidateLogin(appUsers, applicationId, username, password)
       IN /\ appUsers' = IF user = Null THEN appUsers
                         ELSE [appUsers EXCEPT ![user].lastLogin = TRUE]
          /\ loc' = [loc EXCEPT ![p] = [NoLoc EXCEPT
                        !.op = "validateLogin", !.app = applicationId,
                        !.username = username, !.pw = password,
                        !.uid = user,
                        !.seen = IF GetAppUserByUsername(applicationId, username) = Null
                                 THEN NoUser
                                 ELSE appUsers[GetAppUserByUsername(applicationId,
                                                                    username)]]]
    /\ pc' = [pc EXCEPT ![p] = "done"]
    /\ UNCHANGED <<serverlessVars, backend, licenseKeys, nextId, faults, authVars>>

\* ---- the policy engine (design section 4.1) ------------------------------
\* evaluate(application, candidateUser, context): steps 1, 2, 6 in order; the
\* candidate is the row fetched for this request
\* an evaluation that would look at the device before the account
EvaluateHwidFirst(applicationId, user, ip, username, hwid, version) ==
    IF applications[applicationId].requireHwid /\ user.hwid = "" THEN "Bind"
    ELSE IF applications[applicationId].requireHwid /\ user.hwid # hwid
    THEN "HwidMismatch"
    ELSE IF IsBlacklisted(applicationId, ip, username, user.email, hwid) THEN "Blacklisted"
    ELSE IF ~user.isActive THEN "AccountDisabled"
    ELSE IF user.isPaused THEN "AccountPaused"
    ELSE IF user.expired THEN "AccountExpired"
    ELSE IF applications[applicationId].requireVersion
            /\ version # applications[applicationId].allowedVersion
    THEN "VersionMismatch"
    ELSE "Allow"

\* user.expired: expiresAt is set and in the past
Evaluate(applicationId, user, ip, username, hwid, version) ==
    IF IsBlacklisted(applicationId, ip, username, user.email, hwid) THEN "Blacklisted"
    ELSE IF ~user.isActive THEN "AccountDisabled"
    ELSE IF user.isPaused THEN "AccountPaused"
    ELSE IF user.expired THEN "AccountExpired"
    ELSE IF applications[applicationId].requireVersion
            /\ version # applications[applicationId].allowedVersion
    THEN "VersionMismatch"
    ELSE IF applications[applicationId].requireHwid
         THEN IF user.hwid = "" THEN "Bind"
              ELSE IF user.hwid # hwid THEN "HwidMismatch"
              ELSE "Allow"
    ELSE "Allow"

\* ---- login (design section 4.5) -----------------------------------------
\* ResolveApplication, then the candidate user is fetched
LoginStart(p, app, username, password, hwid, ip, version) ==
    /\ pc[p] = "idle"
    /\ app \in DOMAIN applications
    /\ LET uid == GetAppUserByUsername(app, username)
           base == [NoLoc EXCEPT !.op = "login", !.app = app, !.username = username,
                                 !.pw = password, !.hwid = hwid, !.ip = ip,
                                 !.version = version]
       IN IF uid = Null
          THEN /\ pc' = [pc EXCEPT ![p] = "done"]
               /\ loc' = [loc EXCEPT ![p] = [base EXCEPT !.res = "InvalidCredentials"]]
          ELSE /\ pc' = [pc EXCEPT ![p] = "login_policy"]
               /\ loc' = [loc EXCEPT ![p] = [base EXCEPT !.uid = uid,
                                                        !.seen = appUsers[uid]]]
    /\ UNCHANGED <<serverlessVars, backend, licenseKeys, appUsers, nextId, faults, authVars>>

\* PolicyPreCheck; blk records whether an entry of the application matched the
\* attempt when the check ran
LoginPolicy(p) ==
    /\ pc[p] = "login_policy"
    /\ LET l == loc[p]
           verdict == Evaluate(l.app, l.seen, l.ip, l.username, l.hwid, l.version)
           carried == \E id \in DOMAIN blacklist :
                         /\ blacklist[id].applicationId = l.app
                         /\ <<blacklist[id].type, blacklist[id].value>> \in
                               {<<"ip", l.ip>>, <<"username", l.username>>,
                                <<"email", l.seen.email>>, <<"hwid", l.hwid>>}
       IN /\ pc' = [pc EXCEPT ![p] =
                       CASE verdict = "Bind" -> "login_bind"
                         [] verdict = "Allow" -> "login_verify"
                         [] OTHER -> "done"]
          /\ loc' = [loc EXCEPT ![p].blk = carried,
                                ![p].foreign = Foreign(l.app, l.ip, l.username,
                                                       l.seen.email, l.hwid),
                                ![p].res = IF verdict \in {"Bind", "Allow"}
                                           THEN "" ELSE verdict]
    /\ UNCHANGED <<serverlessVars, backend, licenseKeys, appUsers, nextId, faults, authVars>>

\* first use: await storage.setAppUserHwid(user.id, hwid)
LoginBind(p) ==
    /\ pc[p] = "login_bind"
    /\ appUsers' = SetAppUserHwid(loc[p].uid, loc[p].hwid)
    /\ pc' = [pc EXCEPT ![p] = "login_verify"]
    /\ UNCHANGED <<serverlessVars, backend, licenseKeys, nextId, loc, faults, authVars>>

\* VerifyPassword, then OpenSession
LoginVerify(p) ==
    /\ pc[p] = "login_verify"
    /\ IF ValidatePassword(loc[p].pw, loc[p].seen.password)
       THEN /\ nextSess <= MaxSessions
            /\ activeSessions' = CreateActiveSession(loc[p].app, loc[p].uid)
            /\ nextSess' = nextSess + 1
            /\ loc' = [loc EXCEPT ![p].res = "ok", ![p].sid = nextSess]
       ELSE /\ loc' = [loc EXCEPT ![p].res = "InvalidCredentials"]
            /\ UNCHANGED <<activeSessions, nextSess>>
    /\ pc' = [pc EXCEPT ![p] = "done"]
    /\ UNCHANGED <<serverlessVars, backend, licenseKeys, appUsers, nextId, faults,
                   applications, blacklist, nextBl, auditVars>>

\* ---- register (design section 4.5) --------------------------------------
\* ResolveApplication, BlacklistCheck, UsernameUniqueCheck
RegisterStart(p, app, username, email, key, hwid, ip) ==
    /\ pc[p] = "idle"
    /\ app \in DOMAIN applications
    /\ LET base == [NoLoc EXCEPT !.op = "signup", !.app = app, !.username = username,
                                 !.email = email, !.key = key, !.hwid = hwid, !.ip = ip,
                                 !.u0 = Cardinality(DOMAIN appUsers),
                                 !.c0 = Snapshot(key).c0,
                                 !.foreign = Foreign(app, ip, username, email, hwid)]
           carried == \E id \in DOMAIN blacklist :
                         /\ blacklist[id].applicationId = app
                         /\ <<blacklist[id].type, blacklist[id].value>> \in
                               {<<"ip", ip>>, <<"username", username>>,
                                <<"email", email>>, <<"hwid", hwid>>}
       IN IF IsBlacklisted(app, ip, username, email, hwid)
          THEN /\ pc' = [pc EXCEPT ![p] = "done"]
               /\ loc' = [loc EXCEPT ![p] = [base EXCEPT !.blk = carried,
                                                        !.res = "Blacklisted"]]
          ELSE IF GetAppUserByUsername(app, username) # Null
          THEN /\ pc' = [pc EXCEPT ![p] = "done"]
               /\ loc' = [loc EXCEPT ![p] = [base EXCEPT !.blk = carried,
                                                        !.res = "UsernameTaken"]]
          ELSE /\ pc' = [pc EXCEPT ![p] = "reg_call"]
               /\ loc' = [loc EXCEPT ![p] = [base EXCEPT !.blk = carried]]
    /\ UNCHANGED <<serverlessVars, backend, licenseKeys, appUsers, nextId, faults, authVars>>

\* LicenseValidateAndConsume and CreateAppUser: storage.createAppUserWithLicense
RegisterCall(p) ==
    /\ pc[p] = "reg_call"
    /\ EnterCreateAppUserWithLicense(p, loc[p], loc[p].app, loc[p].username,
                                     loc[p].key)

\* ---- activity log --------------------------------------------------------
\* MemStorage.createActivityLog: the row built from the insert record
NewActivityLog(id, log) ==
    [id |-> id, applicationId |-> log.applicationId, appUserId |-> log.appUserId,
     event |-> log.event, success |-> log.success,
     errorMessage |-> log.errorMessage]

\* the second MemStorage (part_001) builds the row without success and
\* errorMessage
Part001ActivityLog(id, log) ==
    [id |-> id, applicationId |-> log.applicationId, appUserId |-> log.appUserId,
     event |-> log.event]

CreateActivityLog(log) ==
    activityLogs @@ (nextLog :> IF backend = "part_001"
                                THEN Part001ActivityLog(nextLog, log)
                                ELSE NewActivityLog(nextLog, log))

\* a caller writes one entry about an existing user of an existing application
CreateActivityLogCall(applicationId, appUserId, event, success) ==
    /\ nextLog <= MaxLogs
    /\ applicationId \in DOMAIN applications
    /\ appUserId \in DOMAIN appUsers
    /\ activityLogs' = CreateActivityLog(
           [applicationId |-> applicationId, appUserId |-> appUserId,
            event |-> event, success |-> success, errorMessage |-> ""])
    /\ nextLog' = nextLog + 1
    /\ UNCHANGED <<serverlessVars, backend, licenseKeys, appUsers, nextId, pc, loc, faults,
                   applications, blacklist, activeSessions, nextBl, nextSess,
                   webhooks, deliveries, notify>>

\* the ids of S, oldest entry first: createdAt grows with the id
RECURSIVE OrderByCreatedAt(_)
OrderByCreatedAt(S) ==
    IF S = {} THEN <<>>
    ELSE <<Min(S)>> \o OrderByCreatedAt(S \ {Min(S)})

\* .sort((a, b) => b.createdAt.getTime() - a.createdAt.getTime())
Newest(S) == CHOOSE x \in S : \A y \in S : y <= x

RECURSIVE SortNewestFirst(_)
SortNewestFirst(S) ==
    IF S = {} THEN <<>>
    ELSE <<Newest(S)>> \o SortNewestFirst(S \ {Newest(S)})

\* .limit(limit) and .slice(0, limit)
Slice(rows, limit) ==
    SubSeq(rows, 1, IF limit < Len(rows) THEN limit ELSE Len(rows))

\* .where(eq(activityLogs.applicationId, applicationId)) and the filter
LogsOf(applicationId) ==
    {i \in DOMAIN activityLogs : activityLogs[i].applicationId = applicationId}

\* DatabaseStorage.getActivityLogs: .orderBy(activityLogs.createdAt).limit(limit)
DbGetActivityLogs(applicationId, limit) ==
    Slice(OrderByCreatedAt(LogsOf(applicationId)), limit)

\* MemStorage.getActivityLogs; part_001: `limit ? logs.slice(0, limit) : logs`
MemGetActivityLogs(applicationId, limit) ==
    IF backend = "part_001" /\ limit = 0
    THEN SortNewestFirst(LogsOf(applicationId))
    ELSE Slice(SortNewestFirst(LogsOf(applicationId)), limit)

GetActivityLogs(applicationId, limit) ==
    IF backend = "db" THEN DbGetActivityLogs(applicationId, limit)
                      ELSE MemGetActivityLogs(applicationId, limit)

\* a dashboard request reads the feed of one application
GetActivityLogsCall(p, applicationId, limit) ==
    /\ pc[p] = "idle"
    /\ pc' = [pc EXCEPT ![p] = "done"]
    /\ loc' = [loc EXCEPT ![p] = [NoLoc EXCEPT !.op = "getActivityLogs",
                  !.app = applicationId, !.cur = limit,
                  !.rows = GetActivityLogs(applicationId, limit)]]
    /\ UNCHANGED <<serverlessVars, backend, licenseKeys, appUsers, nextId, faults, authVars>>

\* ---- webhookService.ts ---------------------------------------------------
Urls == {"https://api.example.com/hook", "https://discord.com/api/webhooks/1",
         "https://hooks.slack.com/services/T1"}
Secrets == {"", "s3cret"}
Events == {"user_login", "login_failed"}

\* String.prototype.includes on the urls above
Includes(url, part) ==
    <<url, part>> \in {<<"https://discord.com/api/webhooks/1", "discord.com">>,
                       <<"https://hooks.slack.com/services/T1", "slack.com">>}

\* JSON.stringify: the text of a value
Stringify(value) == <<"json", value>>

\* formatDiscordWebhook / formatSlackWebhook: the receiver's own document
FormatDiscordWebhook(payload) ==
    [embeds |-> <<[title |-> payload.event, success |-> payload.success]>>]

FormatSlackWebhook(payload) ==
    [attachments |-> <<[title |-> payload.event, success |-> payload.success]>>]

\* generateSignature: hex(HMAC-SHA256(secret, payload))
GenerateSignature(payload, secret) == <<"hmac-sha256", secret, payload>>

\* sendWebhook up to its fetch: the request that goes out
SendWebhook(webhook, payload) ==
    LET payloadString == Stringify(payload)
        signature == IF webhook.secret # ""
                     THEN <<"sha256=", GenerateSignature(payloadString, webhook.secret)>>
                     ELSE <<>>
        body == IF Includes(webhook.url, "discord.com")
                   \/ Includes(webhook.url, "discordapp.com")
                THEN Stringify(FormatDiscordWebhook(payload))
                ELSE IF Includes(webhook.url, "slack.com")
                THEN Stringify(FormatSlackWebhook(payload))
                ELSE payloadString
    IN [webhook |-> webhook.id, url |-> webhook.url, secret |-> webhook.secret,
        signature |-> signature, body |-> body, status |-> "pending"]

\* getUserWebhooks, then the filter of logAndNotify
GetUserWebhooks(userId) == {w \in DOMAIN webhooks : webhooks[w].userId = userId}

\* a filter that would forget isActive
ActiveWebhooksAnyState(userId, event) ==
    {w \in GetUserWebhooks(userId) : event \in webhooks[w].events}

ActiveWebhooks(userId, event) ==
    {w \in GetUserWebhooks(userId) :
        webhooks[w].isActive /\ event \in webhooks[w].events}

\* a set of webhook ids in the order of the array (ascending id)
RECURSIVE InOrder(_)
InOrder(S) == IF S = {} THEN <<>> ELSE <<Min(S)>> \o InOrder(S \ {Min(S)})

\* a loop that would give up at the first webhook whose request cannot be built
RECURSIVE RequestsUntilBroken(_, _, _)
RequestsUntilBroken(order, broken, payload) ==
    IF order = <<>> \/ Head(order) \in broken THEN <<>>
    ELSE <<SendWebhook(webhooks[Head(order)], payload)>>
         \o RequestsUntilBroken(Tail(order), broken, payload)

\* the requests Array.map(sendWebhook) issues: a webhook whose request cannot be
\* built (sendWebhook's catch) issues none
RECURSIVE Requests(_, _, _)
Requests(order, broken, payload) ==
    IF order = <<>> THEN <<>>
    ELSE (IF Head(order) \in broken THEN <<>>
          ELSE <<SendWebhook(webhooks[Head(order)], payload)>>)
         \o Requests(Tail(order), broken, payload)

\* logAndNotify is entered with its arguments (success = options?.success ?? true)
EnterLogAndNotify(userId, applicationId, event, appUserId, success, errorMessage) ==
    /\ notify.pc \in {"idle", "returned"}
    /\ IF notify.pc = "idle" THEN TRUE ELSE notify.calls < MaxCalls
    /\ notify' = [pc |-> "log", userId |-> userId, applicationId |-> applicationId,
                  event |-> event, appUserId |-> appUserId, success |-> success,
                  errorMessage |-> errorMessage, logged |-> FALSE, threw |-> FALSE,
                  lookup |-> "none",
                  matched |-> {}, broken |-> {}, first |-> Len(deliveries) + 1,
                  calls |-> IF notify.pc = "idle" THEN 1 ELSE notify.calls + 1]

\* a caller of the service reports an event
LogAndNotifyStart(userId, applicationId, event, appUserId, success, errorMessage) ==
    /\ EnterLogAndNotify(userId, applicationId, event, appUserId, success, errorMessage)
    /\ UNCHANGED <<serverlessVars, backend, licenseKeys, appUsers, nextId, pc, loc, faults,
                   applications, blacklist, activeSessions, nextBl, nextSess,
                   activityLogs, nextLog, webhooks, deliveries>>

\* a logAndNotify whose createActivityLog stands outside any try: the
\* rejection reaches the caller and nothing after it runs
NotifyLogUncaught(ok) ==
    /\ notify.pc = "log"
    /\ IF ok
       THEN /\ activityLogs' = CreateActivityLog(
                   [applicationId |-> notify.applicationId,
                    appUserId |-> notify.appUserId, event |-> notify.event,
                    success |-> notify.success,
                    errorMessage |-> notify.errorMessage])
            /\ nextLog' = nextLog + 1
            /\ notify' = [notify EXCEPT !.pc = "lookup", !.logged = TRUE]
       ELSE /\ UNCHANGED <<activityLogs, nextLog>>
            /\ notify' = [notify EXCEPT !.pc = "returned", !.threw = TRUE]
    /\ UNCHANGED <<serverlessVars, backend, licenseKeys, appUsers, nextId, pc, loc, faults,
                   applications, blacklist, activeSessions, nextBl, nextSess,
                   webhooks, deliveries>>

\* try { await storage.createActivityLog(...) } catch { console.error }
NotifyLog(ok) ==
    /\ notify.pc = "log"
    /\ IF ok
       THEN /\ activityLogs' = CreateActivityLog(
                   [applicationId |-> notify.applicationId,
                    appUserId |-> notify.appUserId, event |-> notify.event,
                    success |-> notify.success,
                    errorMessage |-> notify.errorMessage])
            /\ nextLog' = nextLog + 1
       ELSE UNCHANGED <<activityLogs, nextLog>>
    /\ notify' = [notify EXCEPT !.pc = "lookup", !.logged = ok]
    /\ UNCHANGED <<serverlessVars, backend, licenseKeys, appUsers, nextId, pc, loc, faults,
                   applications, blacklist, activeSessions, nextBl, nextSess,
                   webhooks, deliveries>>

\* try { webhooks = await storage.getUserWebhooks(userId); filter; map(sendWebhook) }
\* ok: the lookup answers; broken: webhooks whose request cannot be built
NotifyLookup(ok, broken) ==
    /\ notify.pc = "lookup"
    /\ LET matched == ActiveWebhooks(notify.userId, notify.event)
           payload == [event |-> notify.event,
                       application_id |-> notify.applicationId,
                       success |-> notify.success,
                       error_message |-> notify.errorMessage]
       IN IF ~ok \/ matched = {}
          THEN /\ broken = {}
               /\ notify' = [notify EXCEPT !.pc = "returned",
                                           !.lookup = IF ok THEN "ok" ELSE "failed"]
               /\ UNCHANGED deliveries
          ELSE /\ broken \subseteq matched
               /\ deliveries' = deliveries \o Requests(InOrder(matched), broken, payload)
               /\ notify' = [notify EXCEPT !.pc = "await", !.matched = matched,
                                           !.broken = broken, !.lookup = "ok"]
    /\ UNCHANGED <<serverlessVars, backend, licenseKeys, appUsers, nextId, pc, loc, faults,
                   applications, blacklist, activeSessions, nextBl, nextSess,
                   activityLogs, nextLog, webhooks>>

\* one fetch settles: a 2xx response, another response, or a transport error
NotifyResponse(i, outcome) ==
    /\ notify.pc = "await"
    /\ i \in DOMAIN deliveries
    /\ deliveries[i].status = "pending"
    /\ deliveries' = [deliveries EXCEPT ![i].status = outcome]
    /\ UNCHANGED <<serverlessVars, backend, licenseKeys, appUsers, nextId, pc, loc, faults,
                   applications, blacklist, activeSessions, nextBl, nextSess,
                   activityLogs, nextLog, webhooks, notify>>

\* await Promise.all(webhookPromises): every sendWebhook has returned a boolean
NotifyReturn ==
    /\ notify.pc = "await"
    /\ \A i \in DOMAIN deliveries : deliveries[i].status # "pending"
    /\ notify' = [notify EXCEPT !.pc = "returned"]
    /\ UNCHANGED <<serverlessVars, backend, licenseKeys, appUsers, nextId, pc, loc, faults,
                   applications, blacklist, activeSessions, nextBl, nextSess,
                   activityLogs, nextLog, webhooks, deliveries>>

\* ---- Audit/Notify of a login (design section 4.5) ------------------------
\* the handler reports the outcome: success = false and the reason on a denial
LoginAudit(p) ==
    /\ pc[p] = "done"
    /\ loc[p].op = "login"
    /\ EnterLogAndNotify(applications[loc[p].app].userId, loc[p].app,
                         IF loc[p].res = "ok" THEN "user_login" ELSE "login_failed",
                         loc[p].uid, loc[p].res = "ok",
                         IF loc[p].res = "ok" THEN "" ELSE loc[p].res)
    /\ pc' = [pc EXCEPT ![p] = "audit"]
    /\ UNCHANGED <<serverlessVars, backend, licenseKeys, appUsers, nextId, loc, faults,
                   applications, blacklist, activeSessions, nextBl, nextSess,
                   activityLogs, nextLog, webhooks, deliveries>>

\* logAndNotify has returned; the response goes to the caller
LoginAudited(p) ==
    /\ pc[p] = "audit"
    /\ notify.pc = "returned"
    /\ pc' = [pc EXCEPT ![p] = "audited"]
    /\ UNCHANGED <<serverlessVars, backend, licenseKeys, appUsers, nextId, loc, faults, authVars>>

\* ---- the storage layer under arbitrary callers ---------------------------
NConc == 1      \* request slots in use in Spec

Init ==
    /\ backend \in Backends
    /\ licenseKeys = <<>>
    /\ appUsers = <<>>
    /\ nextId = 1
    /\ pc = [p \in Procs |-> IF p <= NConc THEN "idle" ELSE "off"]
    /\ loc = [p \in Procs |-> NoLoc]
    /\ faults = 0
    /\ InitAuth

Next ==
    \/ \E m \in 1..MaxSeats : CreateLicenseKey(1, FreshKey, m)
    \/ \E i \in DOMAIN licenseKeys, sm \in BOOLEAN, m \in 1..MaxSeats,
          sa \in BOOLEAN, ac \in BOOLEAN : UpdateLicenseKey(i, sm, m, sa, ac)
    \/ CreateAppUser(1, "alice")
    \/ \E i \in DOMAIN appUsers : DeleteAppUser(i)
    \/ \E p \in Procs, k \in {"K1", "K2"} :
          StartCreateAppUserWithLicense(p, 1, "alice", k)
    \/ \E p \in Procs : RegInsert(p)
    \/ \E p \in Procs : RegIncRead(p)
    \/ \E p \in Procs : RegIncWrite(p)
    \/ \E p \in Procs, i \in DOMAIN licenseKeys : StartIncrement(p, i)
    \/ \E p \in Procs : IncWrite(p)
    \/ \E p \in Procs, i \in DOMAIN licenseKeys : StartDecrement(p, i)
    \/ \E p \in Procs : DecWrite(p)
    \/ \E p \in Procs : Return(p)
    \/ \E i \in 1..MaxId : Expire(i)

Spec == Init /\ [][Next]_vars

\* ---- registrations and dashboard edits only (no direct counter calls) ----
NextReg ==
    \/ \E m \in 1..MaxSeats : CreateLicenseKey(1, FreshKey, m)
    \/ \E i \in DOMAIN licenseKeys, sm \in BOOLEAN, m \in 1..MaxSeats,
          sa \in BOOLEAN, ac \in BOOLEAN : UpdateLicenseKey(i, sm, m, sa, ac)
    \/ CreateAppUser(1, "alice")
    \/ \E i \in DOMAIN appUsers : DeleteAppUser(i)
    \/ \E p \in Procs, k \in {"K1", "K2"} :
          StartCreateAppUserWithLicense(p, 1, "alice", k)
    \/ \E p \in Procs : RegInsert(p)
    \/ \E p \in Procs : RegIncRead(p)
    \/ \E p \in Procs : RegIncWrite(p)
    \/ \E p \in Procs : Return(p)

SpecReg == Init /\ [][NextReg]_vars

\* ---- N+k concurrent incrementLicenseUsage calls on one license -----------
InitSeats ==
    /\ backend \in Backends
    /\ \E n \in 1..MaxSeats :
          /\ n < NProc
          /\ licenseKeys = (1 :> NewLicenseKey(1, 1, "K1", n))
    /\ appUsers = <<>>
    /\ nextId = 2
    /\ pc = [p \in Procs |-> "idle"]
    /\ loc = [p \in Procs |-> NoLoc]
    /\ faults = 0
    /\ InitAuth

NextSeats ==
    \/ \E p \in Procs : StartIncrement(p, 1)
    \/ \E p \in Procs : IncWrite(p)

SpecSeats == InitSeats /\ [][NextSeats]_vars

\* ---- two concurrent registrations, one seat free -------------------------
\* a license with maxUsers = n whose first n-1 seats are held by users 2..n
Seated(n) == [i \in 2..n |-> NewAppUser(i, 1, "carol", "", Hash("pw"), "", 1)]

InitRace ==
    /\ backend \in Backends
    /\ \E n \in 1..MaxSeats :
          /\ n + 1 <= MaxAppUsers
          /\ licenseKeys = (1 :> [NewLicenseKey(1, 1, "K1", n) EXCEPT
                                     !.currentUsers = n - 1])
          /\ appUsers = Seated(n)
          /\ nextId = n + 1
    /\ pc = [p \in Procs |-> IF p <= 2 THEN "idle" ELSE "off"]
    /\ loc = [p \in Procs |-> NoLoc]
    /\ faults = 0
    /\ InitAuth

NextRace ==
    \/ \E p \in Procs, u \in Usernames : StartCreateAppUserWithLicense(p, 1, u, "K1")
    \/ \E p \in Procs : RegInsert(p)
    \/ \E p \in Procs : RegIncRead(p)
    \/ \E p \in Procs : RegIncWrite(p)

SpecRace == InitRace /\ [][NextRace]_vars

\* ---- one client registering again and again ------------------------------
InitSeq ==
    /\ backend \in Backends
    /\ \E n \in 1..MaxSeats : licenseKeys = (1 :> NewLicenseKey(1, 1, "K1", n))
    /\ appUsers = <<>>
    /\ nextId = 2
    /\ pc = [p \in Procs |-> IF p = 1 THEN "idle" ELSE "off"]
    /\ loc = [p \in Procs |-> NoLoc]
    /\ faults = 0
    /\ InitAuth

NextSeq ==
    \/ \E a \in Apps, u \in Usernames, k \in {"K1", "K2"} :
          StartCreateAppUserWithLicense(1, a, u, k)
    \/ RegInsert(1)
    \/ RegIncRead(1)
    \/ RegIncWrite(1)
    \/ Fault(1)
    \/ Return(1)

SpecSeq == InitSeq /\ [][NextSeq]_vars

\* ---- logins and registrations against one application -------------------
\* alice was created through createAppUser; license K1 has every seat free
BlacklistInputs == {<<"ip", "ip1">>, <<"username", "alice">>, <<"email", "a@x">>,
                    <<"hwid", "hw1">>, <<"username", "hw1">>}

InitAuthScenario(n) ==
    /\ backend \in Backends
    /\ licenseKeys = (2 :> NewLicenseKey(2, 1, "K1", MaxSeats))
    /\ appUsers = (1 :> NewAppUser(1, 1, "alice", "a@x",
                                   IF backend = "mem" THEN Plain("pw") ELSE Hash("pw"),
                                   "", Null))
    /\ nextId = 3
    /\ pc = [p \in Procs |-> IF p <= n THEN "idle" ELSE "off"]
    /\ loc = [p \in Procs |-> NoLoc]
    /\ faults = 0
    /\ InitAuth

\* concurrent logins of alice from two devices, and the dashboard's reset
InitLogin == InitAuthScenario(NAuth)

NextLogin ==
    \/ \E p \in Procs, pw \in {"pw", "bad"}, h \in Hwids :
           LoginStart(p, 1, "alice", pw, h, "ip1", "1.0")
    \/ \E p \in Procs : LoginPolicy(p)
    \/ \E p \in Procs : LoginBind(p)
    \/ \E p \in Procs : LoginVerify(p)
    \/ \E id \in 1..MaxId : ResetAppUserHwid(id)
    \/ \E p \in Procs : Return(p)

SpecLogin == InitLogin /\ [][NextLogin]_vars

\* two first logins of alice with the right password, no dashboard action
NextBind ==
    \/ \E p \in Procs, h \in Hwids : LoginStart(p, 1, "alice", "pw", h, "ip1", "1.0")
    \/ \E p \in Procs : LoginPolicy(p)
    \/ \E p \in Procs : LoginBind(p)
    \/ \E p \in Procs : LoginVerify(p)

SpecBind == InitLogin /\ [][NextBind]_vars

\* one client logging in or registering while the dashboard edits the blacklist
InitBlock == InitAuthScenario(NConc)

NextBlock ==
    \/ \E p \in Procs, u \in Usernames, h \in Hwids :
           LoginStart(p, 1, u, "pw", h, "ip1", "1.0")
    \/ \E p \in Procs : LoginPolicy(p)
    \/ \E p \in Procs : LoginBind(p)
    \/ \E p \in Procs : LoginVerify(p)
    \/ \E a \in Apps \cup {Null}, e \in BlacklistInputs :
           CreateBlacklistEntry(a, e[1], e[2])
    \/ \E id \in 1..MaxBlacklist : DeleteBlacklistEntry(id)
    \/ \E p \in Procs, u \in Usernames, k \in {"K1", "K2"}, h \in Hwids :
           RegisterStart(p, 1, u, "b@x", k, h, "ip1")
    \/ \E p \in Procs : RegisterCall(p)
    \/ \E p \in Procs : RegInsert(p)
    \/ \E p \in Procs : RegIncRead(p)
    \/ \E p \in Procs : RegIncWrite(p)
    \/ \E p \in Procs : Return(p)

SpecBlock == InitBlock /\ [][NextBlock]_vars

\* ---- session bookkeeping: callers opening and ending sessions -----------
Tokens == {"t1", "t2"}

NextSession ==
    \/ \E a \in Apps, u \in 1..2, t \in Tokens : CreateActiveSessionCall(a, u, t)
    \/ \E t \in Tokens : EndSession(t)

SpecSession == Init /\ [][NextSession]_vars

\* ---- the dashboard creating, editing and deleting app users -------------
NextUsers ==
    \/ \E a \in Apps, u \in Usernames : CreateAppUser(a, u)
    \/ \E i \in DOMAIN appUsers, sn \in BOOLEAN, u \in Usernames,
          sp \in BOOLEAN, pa \in BOOLEAN : UpdateAppUser(i, sn, u, sp, pa)
    \/ \E i \in DOMAIN appUsers : DeleteAppUser(i)

SpecUsers == Init /\ [][NextUsers]_vars

\* ---- one event reported through logAndNotify ------------------------------
WebhookRows(id) ==
    {[id |-> id, userId |-> "owner", url |-> u, secret |-> k,
      events |-> {e}, isActive |-> a] :
        u \in Urls, k \in Secrets, e \in Events, a \in BOOLEAN}

InitNotify ==
    /\ backend = "mem"
    /\ licenseKeys = <<>>
    /\ appUsers = <<>>
    /\ nextId = 1
    /\ pc = [p \in Procs |-> "off"]
    /\ loc = [p \in Procs |-> NoLoc]
    /\ faults = 0
    /\ applications = TwoApps
    /\ blacklist = <<>>
    /\ activeSessions = <<>>
    /\ nextBl = 1
    /\ nextSess = 1
    /\ activityLogs = <<>>
    /\ nextLog = 1
    /\ webhooks \in [1..NHooks -> UNION {WebhookRows(i) : i \in 1..NHooks}]
    /\ \A i \in 1..NHooks : webhooks[i].id = i
    /\ deliveries = <<>>
    /\ notify = NoNotify
    /\ ColdStart("v1")

NextNotify ==
    \/ \E ok \in BOOLEAN :
           LogAndNotifyStart("owner", 1, IF ok THEN "user_login" ELSE "login_failed",
                             1, ok, IF ok THEN "" ELSE "AccountPaused")
    \/ \E ok \in BOOLEAN : NotifyLog(ok)
    \/ \E ok \in BOOLEAN, broken \in SUBSET (1..NHooks) : NotifyLookup(ok, broken)
    \/ \E i \in 1..(NHooks * MaxCalls), o \in {"ok", "non2xx", "error"} :
           NotifyResponse(i, o)
    \/ NotifyReturn

SpecNotify == InitNotify /\ [][NextNotify]_vars

\* ---- one login and its audit ---------------------------------------------
\* alice in any account state; the second MemStorage is a backend here too
InitAudited ==
    /\ backend \in Backends \cup {"part_001"}
    /\ licenseKeys = <<>>
    /\ \E act \in BOOLEAN, paused \in BOOLEAN, h \in {"", "hw1"} :
          appUsers = (1 :> [NewAppUser(1, 1, "alice", "a@x",
                               IF backend = "mem" THEN Plain("pw") ELSE Hash("pw"),
                               h, Null)
                            EXCEPT !.isActive = act, !.isPaused = paused])
    /\ nextId = 2
    /\ pc = [p \in Procs |-> IF p <= NConc THEN "idle" ELSE "off"]
    /\ loc = [p \in Procs |-> NoLoc]
    /\ faults = 0
    /\ InitAuth

NextAudited ==
    \/ \E a \in Apps, e \in BlacklistInputs : CreateBlacklistEntry(a, e[1], e[2])
    \/ \E p \in Procs, u \in Usernames, pw \in {"pw", "bad"}, h \in Hwids :
           LoginStart(p, 1, u, pw, h, "ip1", "1.0")
    \/ \E p \in Procs : LoginPolicy(p)
    \/ \E p \in Procs : LoginBind(p)
    \/ \E p \in Procs : LoginVerify(p)
    \/ \E p \in Procs : LoginAudit(p)
    \/ \E ok \in BOOLEAN : NotifyLog(ok)
    \/ NotifyLookup(TRUE, {})
    \/ \E p \in Procs : LoginAudited(p)

SpecAudited == InitAudited /\ [][NextAudited]_vars

\* ---- callers of validateLogin while users come and go -------------------
Passwords == {"pw", "bad"}

InitValidate ==
    /\ backend = "part_001"
    /\ licenseKeys = <<>>
    /\ appUsers = <<>>
    /\ nextId = 1
    /\ pc = [p \in Procs |-> IF p <= NConc THEN "idle" ELSE "off"]
    /\ loc = [p \in Procs |-> NoLoc]
    /\ faults = 0
    /\ InitAuth

NextValidate ==
    \/ \E a \in Apps, u \in Usernames : CreateAppUser(a, u)
    \/ \E i \in DOMAIN appUsers : DeleteAppUser(i)
    \/ \E p \in Procs, a \in Apps, u \in Usernames, w \in Passwords :
           ValidateLoginCall(p, a, u, w)
    \/ \E p \in Procs : Return(p)

SpecValidate == InitValidate /\ [][NextValidate]_vars

\* ---- two tenants with users of the same name and email ------------------
Emails == {"a@x", "b@x"}

InitTenants ==
    /\ backend \in Backends
    /\ licenseKeys = <<>>
    /\ appUsers = [i \in 1..2 |->
                      NewAppUser(i, i, "alice", "a@x",
                                 IF backend = "mem" THEN Plain("pw") ELSE Hash("pw"),
                                 "", Null)]
    /\ nextId = 3
    /\ pc = [p \in Procs |-> IF p = 1 THEN "idle" ELSE "off"]
    /\ loc = [p \in Procs |-> NoLoc]
    /\ faults = 0
    /\ InitAuth

NextTenants ==
    \/ \E a \in Apps, u \in Usernames : CreateAppUser(a, u)
    \/ \E i \in DOMAIN appUsers, u \in Usernames : UpdateAppUser(i, TRUE, u, FALSE, FALSE)
    \/ \E i \in DOMAIN appUsers : DeleteAppUser(i)
    \/ \E p \in Procs, a \in Apps, u \in Usernames :
           LookupCall(p, "getAppUserByUsername", a, u)
    \/ \E p \in Procs, a \in Apps, e \in Emails :
           LookupCall(p, "getAppUserByEmail", a, e)
    \/ \E p \in Procs, a \in Apps : LookupCall(p, "getAllAppUsers", a, "")
    \/ \E p \in Procs : Return(p)

SpecTenants == InitTenants /\ [][NextTenants]_vars

\* ---- tenants creating, editing and deleting applications ----------------
InitApps ==
    /\ backend \in Backends
    /\ licenseKeys = <<>>
    /\ appUsers = <<>>
    /\ nextId = 1
    /\ pc = [p \in Procs |-> "off"]
    /\ loc = [p \in Procs |-> NoLoc]
    /\ faults = 0
    /\ applications = <<>>
    /\ blacklist = <<>>
    /\ activeSessions = <<>>
    /\ nextBl = 1
    /\ nextSess = 1
    /\ InitAudit

NextApps ==
    \/ \E k \in ApiKeys, h \in BOOLEAN : CreateApplication("owner", k, h)
    \/ \E i \in DOMAIN applications, sa \in BOOLEAN, ac \in BOOLEAN,
          sh \in BOOLEAN, h \in BOOLEAN : UpdateApplication(i, sa, ac, sh, h)
    \/ \E i \in DOMAIN applications : DeleteApplication(i)

SpecApps == InitApps /\ [][NextApps]_vars

\* ---- log entries written while users and applications come and go --------
InitLog ==
    /\ backend \in Backends \cup {"part_001"}
    /\ licenseKeys = <<>>
    /\ appUsers = <<>>
    /\ nextId = 1
    /\ pc = [p \in Procs |-> "off"]
    /\ loc = [p \in Procs |-> NoLoc]
    /\ faults = 0
    /\ InitAuth

NextLog ==
    \/ \E a \in Apps : CreateAppUser(a, "alice")
    \/ \E i \in DOMAIN appUsers : DeleteAppUser(i)
    \/ \E i \in DOMAIN applications : DeleteApplication(i)
    \/ \E u \in DOMAIN appUsers :
          CreateActivityLogCall(appUsers[u].applicationId, u, "user_login", TRUE)

SpecLog == InitLog /\ [][NextLog]_vars

\* ---- one login against every combination of failing policy checks --------
Versions == {"1.0", "0.9"}

InitPolicy ==
    /\ backend \in Backends
    /\ licenseKeys = <<>>
    /\ \E act \in BOOLEAN, paused \in BOOLEAN, exp \in BOOLEAN, h \in {"", "hw1"} :
          appUsers = (1 :> [NewAppUser(1, 1, "alice", "a@x",
                               IF backend = "mem" THEN Plain("pw") ELSE Hash("pw"),
                               h, Null)
                            EXCEPT !.isActive = act, !.isPaused = paused,
                                   !.expired = exp])
    /\ nextId = 2
    /\ pc = [p \in Procs |-> IF p <= NConc THEN "idle" ELSE "off"]
    /\ loc = [p \in Procs |-> NoLoc]
    /\ faults = 0
    /\ \E rv \in BOOLEAN : applications = [TwoApps EXCEPT ![1].requireVersion = rv]
    /\ blacklist = <<>>
    /\ activeSessions = <<>>
    /\ nextBl = 1
    /\ nextSess = 1
    /\ InitAudit

NextPolicy ==
    \/ \E e \in BlacklistInputs : CreateBlacklistEntry(1, e[1], e[2])
    \/ \E p \in Procs, h \in Hwids, v \in Versions :
           LoginStart(p, 1, "alice", "pw", h, "ip1", v)
    \/ \E p \in Procs : LoginPolicy(p)
    \/ \E p \in Procs : LoginBind(p)
    \/ \E p \in Procs : LoginVerify(p)

SpecPolicy == InitPolicy /\ [][NextPolicy]_vars

\* ---- users created and given new passwords -------------------------------
NextCred ==
    \/ \E u \in Usernames, pw \in Passwords : CreateAppUserCall(1, u, pw)
    \/ \E i \in DOMAIN appUsers, pw \in Passwords : UpdateAppUserPassword(i, pw)
    \/ \E i \in DOMAIN appUsers : DeleteAppUser(i)

SpecCred == InitLog /\ [][NextCred]_vars

\* ---- a license filling up, being switched off and expiring, and a caller
\* ---- validating keys ------------------------------------------------------
NextKeys ==
    \/ StartIncrement(1, 1)
    \/ IncWrite(1)
    \/ \E a \in BOOLEAN : UpdateLicenseKey(1, FALSE, 1, TRUE, a)
    \/ Expire(1)
    \/ \E k \in {"K1", "K2"}, a \in Apps : ValidateLicenseKeyCall(1, k, a)
    \/ Return(1)

SpecKeys == InitSeq /\ [][NextKeys]_vars

\* ---- seats of a full license being released by concurrent callers ---------
InitRelease ==
    /\ backend \in Backends
    /\ \E n \in 1..MaxSeats :
          licenseKeys = (1 :> [NewLicenseKey(1, 1, "K1", n) EXCEPT !.currentUsers = n])
    /\ appUsers = <<>>
    /\ nextId = 2
    /\ pc = [p \in Procs |-> "idle"]
    /\ loc = [p \in Procs |-> NoLoc]
    /\ faults = 0
    /\ InitAuth

NextRelease ==
    \/ \E p \in Procs : StartDecrement(p, 1)
    \/ \E p \in Procs : DecWrite(p)

SpecRelease == InitRelease /\ [][NextRelease]_vars

\* ---- webhooks of two tenants and two applications, as createWebhook of
\* ---- DatabaseStorage stores them ({ ...webhook, userId }) ------------------
Tenants == {"owner", "other"}

DispatchRows(id) ==
    {[id |-> id, userId |-> t, applicationId |-> a,
      url |-> "https://api.example.com/hook", secret |-> "",
      events |-> {e}, isActive |-> act] :
        t \in Tenants, a \in Apps, e \in Events, act \in BOOLEAN}

InitDispatch ==
    /\ backend = "db"
    /\ licenseKeys = <<>>
    /\ appUsers = <<>>
    /\ nextId = 1
    /\ pc = [p \in Procs |-> "off"]
    /\ loc = [p \in Procs |-> NoLoc]
    /\ faults = 0
    /\ applications = TwoApps
    /\ blacklist = <<>>
    /\ activeSessions = <<>>
    /\ nextBl = 1
    /\ nextSess = 1
    /\ activityLogs = <<>>
    /\ nextLog = 1
    /\ webhooks \in [1..NHooks -> UNION {DispatchRows(i) : i \in 1..NHooks}]
    /\ \A i \in 1..NHooks : webhooks[i].id = i
    /\ deliveries = <<>>
    /\ notify = NoNotify
    /\ ColdStart("v1")

SpecDispatch == InitDispatch /\ [][NextNotify]_vars

\* ---- fair scheduling of logAndNotify: its own steps are taken when they can
\* ---- be; a receiver is free never to answer, and sendWebhook sets no timer --
FairNotify ==
    /\ WF_vars(\E ok \in BOOLEAN : NotifyLog(ok))
    /\ WF_vars(\E ok \in BOOLEAN, broken \in SUBSET (1..NHooks) :
                  NotifyLookup(ok, broken))
    /\ WF_vars(NotifyReturn)

SpecFair == InitDispatch /\ [][NextNotify]_vars /\ FairNotify

\* ---- sessions opened, kept alive and closed by their tokens ---------------
InitTracker ==
    /\ backend \in Backends \cup {"part_001"}
    /\ licenseKeys = <<>>
    /\ appUsers = <<>>
    /\ nextId = 1
    /\ pc = [p \in Procs |-> IF p <= NConc THEN "idle" ELSE "off"]
    /\ loc = [p \in Procs |-> NoLoc]
    /\ faults = 0
    /\ InitAuth

NextTracker ==
    \/ \E a \in Apps, t \in Tokens : CreateActiveSessionCall(a, 1, t)
    \/ \E p \in Procs, t \in Tokens \cup {"t9"} : UpdateSessionActivityCall(p, t)
    \/ \E p \in Procs, t \in Tokens \cup {"t9"} : EndSessionCall(p, t)
    \/ \E p \in Procs : Return(p)

SpecTracker == InitTracker /\ [][NextTracker]_vars

\* ---- the activity feed: entries are written for two applications and read
InitFeed ==
    /\ backend \in Backends \cup {"part_001"}
    /\ licenseKeys = <<>>
    /\ appUsers = (1 :> NewAppUser(1, 1, "alice", "", Hash("pw"), "", Null))
                    @@ (2 :> NewAppUser(2, 2, "bob", "", Hash("pw"), "", Null))
    /\ nextId = 3
    /\ pc = [p \in Procs |-> IF p <= NConc THEN "idle" ELSE "off"]
    /\ loc = [p \in Procs |-> NoLoc]
    /\ faults = 0
    /\ InitAuth

NextFeed ==
    \/ \E u \in DOMAIN appUsers, e \in Events :
          CreateActivityLogCall(appUsers[u].applicationId, u, e, TRUE)
    \/ \E p \in Procs, a \in Apps, limit \in 1..MaxLogs :
          GetActivityLogsCall(p, a, limit)
    \/ \E p \in Procs : Return(p)

SpecFeed == InitFeed /\ [][NextFeed]_vars

\* ---- serverless entry points: api/v1/[...api].ts, api/auth/[...auth].ts ---
\* the call initializeAPI / initializeAuth / initializeApp awaits first
FirstAwait == IF entry = "v1" THEN "registerRoutes" ELSE "setupAuth"

Awaiting == {"await_setupAuth", "await_registerRoutes"}

\* handler(req, res) up to its first suspension: `if (initialized) return;` and
\* then `return app(req, res)`, or the first call of the try block.  u0 and c0
\* keep the initialisations completed and thrown when the invocation began.
Handler(p) ==
    /\ pc[p] = "idle"
    /\ invoked.handler < MaxInvocations
    /\ LET base == [NoLoc EXCEPT !.op = "handler", !.u0 = invoked.completed,
                                 !.c0 = invoked.thrown]
       IN IF initialized
          THEN /\ pc' = [pc EXCEPT ![p] = "done"]
               /\ loc' = [loc EXCEPT ![p] = [base EXCEPT !.res = "dispatched"]]
               /\ invoked' = [invoked EXCEPT !.handler = @ + 1]
          ELSE /\ pc' = [pc EXCEPT ![p] = IF entry = "v1" THEN "await_registerRoutes"
                                                          ELSE "await_setupAuth"]
               /\ loc' = [loc EXCEPT ![p] = base]
               /\ invoked' = [invoked EXCEPT !.handler = @ + 1,
                                             ![FirstAwait] = @ + 1]
    /\ UNCHANGED <<initialized, entry, backend, licenseKeys, appUsers, nextId,
                   faults, authVars>>

\* `await setupAuth(app)` resolves: api/auth sets the flag and dispatches,
\* part_002 goes on to `await registerRoutes(app)`
SetupAuthResolves(p) ==
    /\ pc[p] = "await_setupAuth"
    /\ IF entry = "auth"
       THEN /\ initialized' = TRUE
            /\ pc' = [pc EXCEPT ![p] = "done"]
            /\ loc' = [loc EXCEPT ![p].res = "dispatched"]
            /\ invoked' = [invoked EXCEPT !.completed = @ + 1]
       ELSE /\ pc' = [pc EXCEPT ![p] = "await_registerRoutes"]
            /\ invoked' = [invoked EXCEPT !.registerRoutes = @ + 1]
            /\ UNCHANGED <<initialized, loc>>
    /\ UNCHANGED <<entry, backend, licenseKeys, appUsers, nextId, faults, authVars>>

\* `await registerRoutes(app)` resolves: `initialized = true`, and the handler
\* goes on to `return app(req, res)`
RegisterRoutesResolves(p) ==
    /\ pc[p] = "await_registerRoutes"
    /\ initialized' = TRUE
    /\ pc' = [pc EXCEPT ![p] = "done"]
    /\ loc' = [loc EXCEPT ![p].res = "dispatched"]
    /\ invoked' = [invoked EXCEPT !.completed = @ + 1]
    /\ UNCHANGED <<entry, backend, licenseKeys, appUsers, nextId, faults, authVars>>

\* the catch block with the flag set on the way out
InitializeThrowsInitialized(p) ==
    /\ pc[p] \in Awaiting
    /\ invoked.thrown < MaxFaults
    /\ initialized' = TRUE
    /\ pc' = [pc EXCEPT ![p] = "done"]
    /\ loc' = [loc EXCEPT ![p].res = "error"]
    /\ invoked' = [invoked EXCEPT !.thrown = @ + 1]
    /\ UNCHANGED <<entry, backend, licenseKeys, appUsers, nextId, faults, authVars>>

\* the awaited call rejects: `catch (error) { console.error(...); throw error; }`
\* and the handler's promise rejects before `app(req, res)`
InitializeThrows(p) ==
    /\ pc[p] \in Awaiting
    /\ invoked.thrown < MaxFaults
    /\ pc' = [pc EXCEPT ![p] = "done"]
    /\ loc' = [loc EXCEPT ![p].res = "error"]
    /\ invoked' = [invoked EXCEPT !.thrown = @ + 1]
    /\ UNCHANGED <<initialized, entry, backend, licenseKeys, appUsers, nextId,
                   faults, authVars>>

\* one process of an entry point serving invocations that may overlap
InitServerless ==
    /\ backend = "mem"
    /\ licenseKeys = <<>>
    /\ appUsers = <<>>
    /\ nextId = 1
    /\ pc = [p \in Procs |-> "idle"]
    /\ loc = [p \in Procs |-> NoLoc]
    /\ faults = 0
    /\ applications = TwoApps
    /\ blacklist = <<>>
    /\ activeSessions = <<>>
    /\ nextBl = 1
    /\ nextSess = 1
    /\ activityLogs = <<>>
    /\ nextLog = 1
    /\ webhooks = <<>>
    /\ deliveries = <<>>
    /\ notify = [NoNotify EXCEPT !.pc = "idle"]
    /\ \E e \in Entries : ColdStart(e)

NextServerless ==
    \/ \E p \in Procs : Handler(p)
    \/ \E p \in Procs : SetupAuthResolves(p)
    \/ \E p \in Procs : RegisterRoutesResolves(p)
    \/ \E p \in Procs : InitializeThrows(p)
    \/ \E p \in Procs : Return(p)

SpecServerless == InitServerless /\ [][NextServerless]_vars

\* ======================= claims ==========================================
Quiescent == \A p \in Procs : pc[p] \in {"idle", "off", "done"}

ResultsOf(op, res) == {p \in Procs : loc[p].op = op /\ loc[p].res = res}

\* C1: with maxUsers = N and currentUsers = 0, once N+k concurrent
\* incrementLicenseUsage calls have all returned, exactly N returned success,
\* exactly k returned failure, and currentUsers = N.
C1_ExactlyNSeats ==
    (\A p \in Procs : pc[p] = "done") =>
        /\ Cardinality(ResultsOf("increment", "true")) = licenseKeys[1].maxUsers
        /\ Cardinality(ResultsOf("increment", "false")) = NProc - licenseKeys[1].maxUsers
        /\ licenseKeys[1].currentUsers = licenseKeys[1].maxUsers

\* C2: two concurrent DatabaseStorage.createAppUserWithLicense calls with the
\* same key and one free seat end with exactly one success and one denial, and
\* one new AppUser.
C2_OneWinnerOneLoser ==
    (backend = "db" /\ pc[1] = "done" /\ pc[2] = "done") =>
        /\ Cardinality(ResultsOf("register", "ok")) = 1
        /\ Cardinality(ResultsOf("register", "Invalid")) = 1
        /\ Cardinality(DOMAIN appUsers) = licenseKeys[1].maxUsers

\* C3: every LicenseKey satisfies 0 <= currentUsers <= maxUsers in every
\* reachable state.
C3_SeatsWithinCap ==
    \A i \in DOMAIN licenseKeys :
        /\ 0 <= licenseKeys[i].currentUsers
        /\ licenseKeys[i].currentUsers <= licenseKeys[i].maxUsers

\* currentUsers of the license a finished registration named (0: no such license)
SeatsOfKey(key) ==
    IF LicenseOfKey(key) = Null THEN 0
    ELSE licenseKeys[LicenseOfKey(key)].currentUsers

\* C4: a registration that fails leaves no new AppUser and the license's
\* currentUsers as before; one that succeeds adds exactly one AppUser and
\* raises currentUsers by exactly one.
C4_AllOrNothing ==
    (pc[1] = "done" /\ loc[1].op = "register") =>
        IF loc[1].res = "ok"
        THEN /\ Cardinality(DOMAIN appUsers) = loc[1].u0 + 1
             /\ LicenseOfKey(loc[1].key) # Null
             /\ SeatsOfKey(loc[1].key) = loc[1].c0 + 1
        ELSE /\ Cardinality(DOMAIN appUsers) = loc[1].u0
             /\ SeatsOfKey(loc[1].key) = loc[1].c0

\* C5: sequential registrations with a license of maxUsers = N: while seats are
\* free each one succeeds and raises currentUsers by one (1..N in turn); once
\* currentUsers = N the next one is denied, creates no AppUser and leaves
\* currentUsers = N.  (A call hit by a repository fault is not in the claim.)
C5_SequentialSeats ==
    (/\ pc[1] = "done" /\ loc[1].op = "register" /\ loc[1].res # "fault"
     /\ loc[1].app = 1 /\ loc[1].key = "K1") =>
        IF loc[1].c0 < licenseKeys[1].maxUsers
        THEN /\ loc[1].res = "ok"
             /\ licenseKeys[1].currentUsers = loc[1].c0 + 1
        ELSE /\ loc[1].res = "Invalid"
             /\ Cardinality(DOMAIN appUsers) = loc[1].u0
             /\ licenseKeys[1].currentUsers = licenseKeys[1].maxUsers

\* C6: a step that deletes an AppUser holding a seat of license l lowers
\* l.currentUsers by exactly 1 and changes no other license; deleting an
\* AppUser without a license changes no license.  (Read for deletions made
\* while no registration is half-way.)
C6_DeleteReleasesSeat ==
    [][\A u \in DOMAIN appUsers :
          (Quiescent /\ u \notin DOMAIN appUsers') =>
              IF appUsers[u].licenseKeyId \in DOMAIN licenseKeys
              THEN licenseKeys' = [licenseKeys EXCEPT
                       ![appUsers[u].licenseKeyId].currentUsers = @ - 1]
              ELSE licenseKeys' = licenseKeys]_vars

\* C7: each license's currentUsers equals the number of AppUsers whose
\* licenseKeyId is that license (read at the states where no registration is
\* half-way, the reading most favourable to the code).
C7_SeatsEqualUsers ==
    Quiescent =>
        \A i \in DOMAIN licenseKeys :
            licenseKeys[i].currentUsers = Cardinality(UsersOfLicense(i))

\* C8: two logins of one AppUser whose hwid is unset, under requireHwid, from
\* different devices: once both have finished exactly one has succeeded, the
\* stored hwid is that one's device id, and the other was denied HwidMismatch.
\* (Read for DatabaseStorage, where every repository call is a round trip.)
C8_OneBindingWins ==
    (/\ backend = "db"
     /\ pc[1] = "done" /\ pc[2] = "done"
     /\ loc[1].uid = loc[2].uid /\ loc[1].hwid # loc[2].hwid) =>
        \E w \in {1, 2} :
            /\ loc[w].res = "ok"
            /\ loc[3 - w].res = "HwidMismatch"
            /\ appUsers[loc[w].uid].hwid = loc[w].hwid

\* C9: under requireHwid the binding step of a login stores the caller's
\* device id, a login that is denied HwidMismatch leaves the stored hwid alone,
\* and a stored hwid that is set changes only in a dashboard step (reset or
\* edit), never in a step of a login.  (Read for DatabaseStorage.)
C9_HwidLock ==
    [][backend = "db" =>
        \A u \in DOMAIN appUsers :
            /\ (appUsers[u].hwid # "" /\ appUsers'[u].hwid # appUsers[u].hwid)
                   => pc' = pc
            /\ \A p \in Procs :
                  (pc[p] = "login_bind" /\ pc'[p] # pc[p] /\ loc[p].uid = u)
                      => appUsers'[u].hwid = loc[p].hwid]_vars

C11_TokensDistinct ==
    backend = "mem" =>
        \A i, j \in DOMAIN activeSessions :
            i # j => activeSessions[i].sessionToken # activeSessions[j].sessionToken

\* C12: at most one AppUser per (applicationId, username) in every reachable
\* state.  (Read for MemStorage; an index of the database table is not part of
\* the code.)
C12_UsernameUnique ==
    backend = "mem" =>
        \A u, v \in DOMAIN appUsers :
            (/\ u # v
             /\ appUsers[u].applicationId = appUsers[v].applicationId)
                => appUsers[u].username # appUsers[v].username

\* C13: every outbound request of a webhook with a secret carries the
\* signature sha256= HMAC-SHA256(secret, B), B being the body of that same
\* request; and an event matched by one webhook produces one outbound call.
C13_SignatureOverBody ==
    /\ \A i \in DOMAIN deliveries :
          deliveries[i].secret # "" =>
              deliveries[i].signature =
                  <<"sha256=", GenerateSignature(deliveries[i].body,
                                                 deliveries[i].secret)>>
    /\ (notify.pc \in {"await", "returned"} /\ notify.broken = {}
        /\ Cardinality(notify.matched) = 1)
           => Len(deliveries) = 1

\* C14: a denied login whose audit has returned, the log write not having
\* failed, left an ActivityLog entry of the login with stored success = false
\* and the denial reason, and opened no session.
C14_DenialLogged ==
    \A p \in Procs :
        (/\ pc[p] = "audited" /\ loc[p].op = "login" /\ loc[p].res # "ok"
         /\ notify.logged) =>
            /\ loc[p].sid = 0
            /\ \E i \in DOMAIN activityLogs :
                  /\ activityLogs[i].applicationId = loc[p].app
                  /\ "success" \in DOMAIN activityLogs[i]
                  /\ activityLogs[i].success = FALSE
                  /\ activityLogs[i].errorMessage = loc[p].res

\* the rows without the users of that name in that application
WithoutUser(applicationId, username) ==
    LET keep == {u \in DOMAIN appUsers :
                    ~(/\ appUsers[u].applicationId = applicationId
                      /\ appUsers[u].username = username)}
    IN [u \in keep |-> appUsers[u]]

\* C15: for every application, username and password that is not the password
\* of a user of that name, validateLogin returns the same value whether or not
\* the username exists; and a finished call with an unknown username or a wrong
\* password has returned that value.
C15_NoEnumeration ==
    /\ \A a \in Apps, u \in Usernames, w \in Passwords :
          (\A i \in DOMAIN appUsers :
               (appUsers[i].applicationId = a /\ appUsers[i].username = u)
                   => appUsers[i].password # Hash(w))
              => ValidateLogin(appUsers, a, u, w)
                 = ValidateLogin(WithoutUser(a, u), a, u, w)
    /\ \A p \in Procs :
          (/\ pc[p] = "done" /\ loc[p].op = "validateLogin"
           /\ (loc[p].seen = NoUser \/ loc[p].seen.password # Hash(loc[p].pw)))
              => loc[p].uid = Null

\* a known username was tried with a wrong password and told nothing more
C15_Witness ==
    \E p \in Procs :
        /\ pc[p] = "done" /\ loc[p].op = "validateLogin"
        /\ loc[p].seen # NoUser
        /\ loc[p].seen.password # Hash(loc[p].pw)
        /\ loc[p].uid = Null

\* C16: a lookup scoped to application A returns only AppUsers of A: in every
\* reachable state, for every A and every username and email, and for the
\* result of every lookup a caller has made.
C16_TenantIsolation ==
    /\ \A a \in Apps :
          /\ \A u \in Usernames :
                GetAppUserByUsername(a, u) # Null
                    => appUsers[GetAppUserByUsername(a, u)].applicationId = a
          /\ \A e \in Emails :
                GetAppUserByEmail(a, e) # Null
                    => appUsers[GetAppUserByEmail(a, e)].applicationId = a
          /\ \A i \in GetAllAppUsers(a) : appUsers[i].applicationId = a
    /\ \A p \in Procs :
          (pc[p] = "done" /\ loc[p].op \in {"getAppUserByUsername",
                                            "getAppUserByEmail", "getAllAppUsers"})
              => \A r \in loc[p].ids : r[2] = loc[p].app

\* a lookup by name in one application found its user while another
\* application holds a user of the same name
C16_Witness ==
    \E p \in Procs :
        /\ pc[p] = "done" /\ loc[p].op = "getAppUserByUsername"
        /\ \E r \in loc[p].ids, j \in DOMAIN appUsers :
              /\ appUsers[j].username = r[3]
              /\ appUsers[j].applicationId # loc[p].app

\* C17: no two Applications have the same apiKey, and every Application's
\* apiKey is the key assigned at its creation.  (Read for MemStorage.)
C17_ApiKeyUniqueImmutable ==
    backend = "mem" =>
        /\ \A i, j \in DOMAIN applications :
              i # j => applications[i].apiKey # applications[j].apiKey
        /\ \A i \in DOMAIN applications :
              applications[i].apiKey = applications[i].apiKey0

\* C18: the activity log is append-only: a step leaves the entries as they
\* are or adds exactly one new entry and keeps every existing entry unchanged,
\* also when the user or the application an entry refers to is deleted.
C18_AppendOnly ==
    [][\/ activityLogs' = activityLogs
       \/ /\ Cardinality(DOMAIN activityLogs') = Cardinality(DOMAIN activityLogs) + 1
          /\ DOMAIN activityLogs \subseteq DOMAIN activityLogs'
          /\ \A i \in DOMAIN activityLogs : activityLogs'[i] = activityLogs[i]]_vars

\* an entry outlives both the user and the application it refers to, and a
\* second entry stands beside it
C18_Witness ==
    /\ Cardinality(DOMAIN activityLogs) = 2
    /\ \E i \in DOMAIN activityLogs :
          /\ activityLogs[i].appUserId \notin DOMAIN appUsers
          /\ activityLogs[i].applicationId \notin DOMAIN applications

\* the deliveries the current call of logAndNotify has issued
Issued == {i \in DOMAIN deliveries : i >= notify.first}

\* C19: logAndNotify never fails its caller: whether createActivityLog throws,
\* the webhook lookup throws or a delivery fails, no error is propagated; and a
\* failed log write does not keep the lookup and the deliveries from being
\* attempted.
C19_NeverFailsCaller ==
    notify.pc \in {"await", "returned"} =>
        /\ ~notify.threw
        /\ notify.lookup # "none"
        /\ notify.lookup = "ok" =>
              \A w \in ActiveWebhooks(notify.userId, notify.event) \ notify.broken :
                  \E i \in Issued : deliveries[i].webhook = w

\* the log write failed, a matching webhook was still called, its delivery
\* failed, and logAndNotify has returned normally
C19_Witness ==
    /\ notify.pc = "returned"
    /\ ~notify.logged
    /\ ~notify.threw
    /\ \E i \in Issued : deliveries[i].status \in {"non2xx", "error"}

\* C20: sibling webhooks are isolated: every matching webhook whose own
\* request can be built gets exactly one delivery attempt, whatever happens to
\* the others, and the outcome of one delivery changes only that delivery.
C20_SiblingsIsolated ==
    /\ [](notify.pc \in {"await", "returned"} /\ notify.lookup = "ok" =>
            \A w \in ActiveWebhooks(notify.userId, notify.event) \ notify.broken :
                Cardinality({i \in Issued : deliveries[i].webhook = w}) = 1)
    /\ [][\A i \in DOMAIN deliveries :
             /\ i \in DOMAIN deliveries'
             /\ deliveries'[i] # deliveries[i] =>
                   /\ deliveries[i].status = "pending"
                   /\ deliveries'[i] = [deliveries[i] EXCEPT
                                           !.status = deliveries'[i].status]
                   /\ \A j \in DOMAIN deliveries \ {i} :
                         deliveries'[j] = deliveries[j]]_vars

\* two webhooks matched the event; one delivery failed, the other succeeded,
\* and the call has returned
C20_Witness ==
    /\ notify.pc = "returned"
    /\ Cardinality(notify.matched) = 2
    /\ \E i, j \in Issued :
          /\ deliveries[i].webhook # deliveries[j].webhook
          /\ deliveries[i].status \in {"non2xx", "error"}
          /\ deliveries[j].status = "ok"

\* the denial reasons in the order of the checks, and which of the checks fail
\* on what the request saw
Reasons == <<"Blacklisted", "AccountDisabled", "AccountPaused", "AccountExpired",
             "VersionMismatch", "HwidMismatch">>

Fails(l) ==
    <<l.blk, ~l.seen.isActive, l.seen.isPaused, l.seen.expired,
      applications[l.app].requireVersion
          /\ l.version # applications[l.app].allowedVersion,
      applications[l.app].requireHwid /\ l.seen.hwid # "" /\ l.seen.hwid # l.hwid>>

FirstFailing(l) ==
    IF \E k \in 1..6 : Fails(l)[k]
    THEN Min({k \in 1..6 : Fails(l)[k]})
    ELSE 0

\* C21: policy evaluation is fixed-order and short-circuiting: a login whose
\* checks fail is denied with the reason of the first failing check in the
\* order blacklist, disabled, paused, expired, version, hwid, and it never
\* reaches the first-use bind or the password check.
C21_FirstFailingCheckWins ==
    \A p \in Procs :
        loc[p].op = "login" /\ loc[p].uid # Null
            /\ pc[p] \in {"login_bind", "login_verify", "done"} =>
        LET k == FirstFailing(loc[p])
        IN IF k # 0
           THEN pc[p] = "done" /\ loc[p].res = Reasons[k]
           ELSE pc[p] = "done" => loc[p].res \in {"ok", "InvalidCredentials"}

\* a paused and expired user with no device bound under requireHwid is denied
\* as paused, and no device has been bound
C21_Witness ==
    \E p \in Procs :
        /\ pc[p] = "done"
        /\ loc[p].op = "login"
        /\ loc[p].seen.isPaused /\ loc[p].seen.expired /\ loc[p].seen.isActive
        /\ loc[p].seen.hwid = ""
        /\ ~loc[p].blk
        /\ loc[p].res = "AccountPaused"
        /\ appUsers[loc[p].uid].hwid = ""

\* C22: no reachable state holds an AppUser, LicenseKey, BlacklistEntry or
\* ActiveSession whose Application no longer exists: deleteApplication removes
\* the children or is refused while there are any.  (Read for the in-memory
\* storages; the tables behind DatabaseStorage are not part of the sources.)
C22_NoOrphans ==
    backend # "db" =>
        /\ \A u \in DOMAIN appUsers :
              appUsers[u].applicationId \in DOMAIN applications
        /\ \A k \in DOMAIN licenseKeys :
              licenseKeys[k].applicationId \in DOMAIN applications
        /\ \A b \in DOMAIN blacklist :
              blacklist[b].applicationId \in DOMAIN applications \cup {Null}
        /\ \A x \in DOMAIN activeSessions :
              activeSessions[x].applicationId \in DOMAIN applications

\* C23: for every storage backend, a user created or updated with password p
\* stores hash(p): validatePassword(q, stored) is true exactly for q = p.
C23_CredentialRoundTrip ==
    \A u \in DOMAIN appUsers, q \in Passwords :
        ValidatePassword(q, appUsers[u].password) <=> q = appUsers[u].password.plain

\* C24: a delivery that fails (non-2xx response or transport error) is
\* attempted again: when logAndNotify has returned, every failed delivery is
\* followed by a later delivery to the same webhook.
C24_FailedDeliveryRetried ==
    notify.pc = "returned" =>
        \A i \in Issued :
            deliveries[i].status \in {"non2xx", "error"} =>
                \E j \in Issued :
                    j > i /\ deliveries[j].webhook = deliveries[i].webhook

\* the license a key names is usable for an application
Accepts(key, app) ==
    \E i \in DOMAIN licenseKeys :
        /\ licenseKeys[i].licenseKey = key
        /\ licenseKeys[i].applicationId = app
        /\ licenseKeys[i].isActive
        /\ ~licenseKeys[i].expired
        /\ licenseKeys[i].currentUsers < licenseKeys[i].maxUsers

\* C25: validateLicenseKey returns the license if and only if the key exists,
\* belongs to the application, is active, is not expired and has
\* currentUsers < maxUsers; a full license is rejected by every backend.
C25_ValidateLicenseKey ==
    [][\A p \in Procs :
          pc[p] = "idle" /\ pc'[p] = "done" /\ loc'[p].op = "validateLicenseKey" =>
              /\ loc'[p].licId # Null <=> Accepts(loc'[p].key, loc'[p].app)
              /\ loc'[p].licId # Null =>
                    licenseKeys[loc'[p].licId].licenseKey = loc'[p].key]_vars

\* C26: from a license with currentUsers = c (here c = maxUsers), once k
\* decrementLicenseUsage calls have returned and none is in progress,
\* currentUsers = max(0, c - k); currentUsers is never negative.
C26_ReleaseSeat ==
    /\ \A i \in DOMAIN licenseKeys : licenseKeys[i].currentUsers >= 0
    /\ Quiescent =>
          LET k == Cardinality(ResultsOf("decrement", "true"))
              c == licenseKeys[1].maxUsers
          IN licenseKeys[1].currentUsers = IF c - k > 0 THEN c - k ELSE 0

C28_OwnApplicationOnly ==
    \A i \in Issued :
        webhooks[deliveries[i].webhook].applicationId = notify.applicationId

\* C29: every call of logAndNotify eventually completes, even when a receiver
\* accepts the connection and never responds.
C29_NotifyTerminates == (notify.pc = "log") ~> (notify.pc = "returned")

\* C30: the completion of logAndNotify does not depend on any webhook delivery
\* having completed: while deliveries are in flight, logAndNotify is able to
\* return.
C30_ReturnsWithoutDeliveries ==
    notify.pc = "await" => ENABLED NotifyReturn

Listed == UNION {GetActiveSessions(a) : a \in Apps}

\* C32: close on a known token returns true and the session of that token is
\* no longer listed; close on an unknown token returns false and changes no
\* session; closing one session never removes or deactivates a session of
\* another token.
C32_Close ==
    [][\A p \in Procs :
          pc[p] = "idle" /\ pc'[p] = "done" /\ loc'[p].op = "endSession" =>
              LET t == loc'[p].key
              IN /\ loc'[p].res = "true" <=> Hits(t) # {}
                 /\ Hits(t) = {} => activeSessions' = activeSessions
                 /\ \A i \in DOMAIN activeSessions \ Hits(t) :
                       i \in DOMAIN activeSessions'
                           /\ activeSessions'[i] = activeSessions[i]
                 /\ \A i \in Listed' : activeSessions'[i].sessionToken # t]_vars

\* C33: a closed session is closed for good: a session that has been opened
\* and is not listed is not listed after any step, whether a heartbeat on its
\* token, another close or the creation of other sessions.
C33_ClosedForGood ==
    [][\A i \in 1..(nextSess - 1) : i \notin Listed => i \notin Listed']_vars

\* a heartbeat on the token of a closed session has returned true and the
\* session is still closed
C33_Witness ==
    \E p \in Procs :
        /\ pc[p] = "done"
        /\ loc[p].op = "updateSessionActivity"
        /\ loc[p].res = "true"
        /\ \A i \in Hits(loc[p].key) :
              ~activeSessions[i].isActive /\ activeSessions[i].lastActivity > 0

\* C34: a blacklist entry affects only the application whose id it carries:
\* checkBlacklist(A, type, value) matches only when an entry with applicationId
\* A, that type and that value is stored, and a login or registration denied
\* Blacklisted carried a value blacklisted for its own application.
C34_OwnApplicationOnly ==
    /\ \A a \in Apps, e \in BlacklistInputs :
          CheckBlacklist(a, e[1], e[2]) =>
              \E id \in DOMAIN blacklist :
                  /\ blacklist[id].applicationId = a
                  /\ blacklist[id].type = e[1]
                  /\ blacklist[id].value = e[2]
    /\ \A p \in Procs :
          (loc[p].op \in {"login", "signup"} /\ loc[p].res = "Blacklisted")
              => loc[p].blk

\* a login of a registered user that carried a value blacklisted without an
\* application id, and none blacklisted for its application, was not denied
\* Blacklisted
C34_Witness ==
    \E p \in Procs :
        /\ loc[p].op = "login"
        /\ pc[p] \in {"login_bind", "login_verify", "done"}
        /\ loc[p].uid # Null
        /\ Null \in loc[p].foreign
        /\ ~loc[p].blk
        /\ loc[p].res # "Blacklisted"

\* C35: both backends agree on licensed registration: from the same state the
\* same createAppUserWithLicense request is rejected by both, or creates in
\* both a user bound to the license and raises currentUsers by one.  The
\* outcome of a call that ran to its end is therefore the same function of the
\* state the call started in, whichever the backend: rejected without a row
\* when validateLicenseKey refuses the key, and otherwise a user carrying the
\* license's id and currentUsers one above its value at the start.
C35_BackendsAgree ==
    \A p \in Procs :
        (pc[p] = "done" /\ loc[p].op = "register" /\ loc[p].res # "fault") =>
            LET l == loc[p]
                lic == LicenseOfKey(l.key)
                valid == /\ lic # Null
                         /\ licenseKeys[lic].applicationId = l.app
                         /\ licenseKeys[lic].isActive
                         /\ ~licenseKeys[lic].expired
                         /\ l.c0 < licenseKeys[lic].maxUsers
            IN IF valid
               THEN /\ l.res = "ok"
                    /\ l.uid \in DOMAIN appUsers
                    /\ appUsers[l.uid].licenseKeyId = lic
                    /\ licenseKeys[lic].currentUsers = l.c0 + 1
               ELSE /\ l.res = "Invalid"
                    /\ Cardinality(DOMAIN appUsers) = l.u0

\* C36: getActivityLogs(applicationId, limit) returns, in both backends, the
\* limit most recently created entries of that application, newest first:
\* never an entry of another application, and when the application has more
\* than limit entries the oldest ones are left out.
C36_NewestFirst ==
    [][\A p \in Procs :
          (pc[p] = "idle" /\ pc'[p] = "done" /\ loc'[p].op = "getActivityLogs") =>
              LET rows == loc'[p].rows
                  own == LogsOf(loc'[p].app)
                  returned == {rows[k] : k \in DOMAIN rows}
              IN /\ Len(rows) = IF loc'[p].cur < Cardinality(own)
                                THEN loc'[p].cur ELSE Cardinality(own)
                 /\ returned \subseteq own
                 /\ \A j, k \in DOMAIN rows : j < k => rows[j] > rows[k]
                 /\ \A i \in own \ returned : \A k \in DOMAIN rows : i < rows[k]]_vars

\* C37: the serverless handler initialises at most once per process, also
\* when invocations overlap while the first initialisation is awaiting: as long
\* as no initialisation has failed, setupAuth and registerRoutes have each been
\* invoked at most once.
C37_InitialisedOnce ==
    invoked.thrown = 0 => (invoked.registerRoutes <= 1 /\ invoked.setupAuth <= 1)

\* C38: a request is dispatched to the Express app only after an initialisation
\* has completed successfully; when the initialisation throws, the invocation
\* ends with the error and without dispatching, the flag is left as it was
\* (false unless another initialisation completed), and an invocation that
\* begins before any initialisation has completed initialises again.
C38_DispatchAfterInit ==
    [][\A p \in Procs :
          /\ (loc'[p].op = "handler" /\ loc'[p].res = "dispatched"
                  /\ loc[p].res # "dispatched")
                 => (initialized' /\ invoked'.completed >= 1)
          /\ (pc[p] \in Awaiting /\ loc'[p].res = "error")
                 => /\ pc'[p] = "done"
                    /\ initialized' = initialized
                    /\ invoked.completed = 0 => ~initialized'
          /\ (pc[p] = "idle" /\ loc'[p].op = "handler" /\ invoked.completed = 0)
                 => /\ pc'[p] \in Awaiting
                    /\ invoked'[FirstAwait] = invoked[FirstAwait] + 1]_vars

\* an invocation that began after an initialisation had thrown and before any
\* had completed has initialised again and dispatched its request
C38_Witness ==
    \E p \in Procs :
        /\ pc[p] = "done"
        /\ loc[p].op = "handler"
        /\ loc[p].res = "dispatched"
        /\ loc[p].c0 >= 1
        /\ loc[p].u0 = 0

====
